---- MODULE Spec2Model ----
(***************************************************************************)
(* Model of the react-grab feedback demo: the draft / context-resolution   *)
(* controller, the local-storage feedback service, the Remix loader and    *)
(* action over the relational store, and the submit flow of the page.      *)
(*                                                                         *)
(* Text is modelled as a sequence of one-character strings, so that trim,  *)
(* slice and the component-name pattern are computed character by          *)
(* character as the code computes them.                                    *)
(***************************************************************************)
EXTENDS Integers, Sequences, FiniteSets, TLC

\* null where a text is expected: no text has an element longer than one character
NULL == <<"null">>

\* null where an element is expected
NoElement == "none"

\* null where a draft is expected
NoDraft == [isNull |-> TRUE]

NoRecord == [isNull |-> TRUE]

\* the create that filled the empty store has been followed by a write
Voided == [voided |-> TRUE]

(***************************************************************************)
(* Text primitives (String.prototype.trim, slice, toLowerCase, \s, \w)     *)
(***************************************************************************)
WhiteSpace == {" ", "\n", "\t"}

UpperCase == <<"A","B","C","D","E","F","G","H","I","J","K","L","M",
               "N","O","P","Q","R","S","T","U","V","W","X","Y","Z">>

LowerCase == <<"a","b","c","d","e","f","g","h","i","j","k","l","m",
               "n","o","p","q","r","s","t","u","v","w","x","y","z">>

Digits == {"0","1","2","3","4","5","6","7","8","9"}

IsUpper(c) == \E i \in DOMAIN UpperCase : UpperCase[i] = c

IsLower(c) == \E i \in DOMAIN LowerCase : LowerCase[i] = c

\* \w of a JavaScript regular expression
IsWordChar(c) == IsUpper(c) \/ IsLower(c) \/ c \in Digits \/ c = "_"

CharToLower(c) ==
    IF IsUpper(c) THEN LowerCase[CHOOSE i \in DOMAIN UpperCase : UpperCase[i] = c]
    ELSE c

toLowerCase(s) == [i \in DOMAIN s |-> CharToLower(s[i])]

slice(s, from, to) == SubSeq(s, from + 1, IF to > Len(s) THEN Len(s) ELSE to)

RECURSIVE TrimStart(_)
TrimStart(s) ==
    IF s # <<>> /\ Head(s) \in WhiteSpace THEN TrimStart(Tail(s)) ELSE s

RECURSIVE TrimEnd(_)
TrimEnd(s) ==
    IF s # <<>> /\ s[Len(s)] \in WhiteSpace
    THEN TrimEnd(SubSeq(s, 1, Len(s) - 1)) ELSE s

trim(s) == TrimEnd(TrimStart(s))

\* replace(/\s+/g, " ")
RECURSIVE CollapseWhiteSpace(_)
CollapseWhiteSpace(s) ==
    IF s = <<>> THEN <<>>
    ELSE IF Head(s) \in WhiteSpace
         THEN <<" ">> \o CollapseWhiteSpace(TrimStart(s))
         ELSE <<Head(s)>> \o CollapseWhiteSpace(Tail(s))

\* Array.prototype.join
RECURSIVE join(_, _)
join(parts, sep) ==
    IF parts = <<>> THEN <<>>
    ELSE IF Len(parts) = 1 THEN parts[1]
    ELSE parts[1] \o sep \o join(Tail(parts), sep)

reverse(s) == [i \in DOMAIN s |-> s[Len(s) + 1 - i]]

(***************************************************************************)
(* The page: a small DOM.  Each node has a tagName, an id, a class list,   *)
(* a parent, its text content and its serialised markup.                   *)
(***************************************************************************)
PageUrl == <<"/","d">>

Dom ==
    [ P  |-> [tagName |-> <<"P">>, isHTMLElement |-> TRUE, id |-> <<>>,
              classList |-> <<>>, parentElement |-> NoElement,
              textContent |-> <<"x"," ","y">>,
              outerHTML |-> <<"<","p",">","x"," ","y","<","/","p",">">>],
      B1 |-> [tagName |-> <<"B">>, isHTMLElement |-> TRUE, id |-> <<>>,
              classList |-> <<>>, parentElement |-> "P",
              textContent |-> <<"x">>,
              outerHTML |-> <<"<","b",">","x","<","/","b",">">>],
      B2 |-> [tagName |-> <<"B">>, isHTMLElement |-> TRUE, id |-> <<>>,
              classList |-> <<>>, parentElement |-> "P",
              textContent |-> <<"y">>,
              outerHTML |-> <<"<","b",">","y","<","/","b",">">>],
      A  |-> [tagName |-> <<"A">>, isHTMLElement |-> TRUE, id |-> <<"k">>,
              classList |-> <<<<"c">>>>, parentElement |-> "P",
              textContent |-> <<>>,
              outerHTML |-> <<"<","a","/",">">>] ]

\* The elements the picker can hand to onElementSelect.
Elements == {"B1", "B2", "A"}

SELECTOR_DEPTH == 5

CLASS_LIMIT == 2

HTML_LIMIT == 400

TEXT_LIMIT == 120

Ellipsis == <<".",".",".">>

\* the separator of the label pieces; "+" stands for the middle dot U+00B7
LabelSeparator == <<" ","+"," ">>

ClassSuffix(classList) ==
    LET kept == SelectSeq(classList, LAMBDA c : c # <<>>)
        firstTwo == SubSeq(kept, 1, IF Len(kept) > CLASS_LIMIT THEN CLASS_LIMIT ELSE Len(kept))
    IN  join([i \in DOMAIN firstTwo |-> <<".">> \o firstTwo[i]], <<>>)

\* current.tagName?.toLowerCase() ?? fallback
TagOr(node, fallback) ==
    IF node.tagName = NULL THEN fallback ELSE toLowerCase(node.tagName)

\* faulty variant: the loop runs while parts.length <= 5
RECURSIVE SelectorPartsOneMore(_, _, _)
SelectorPartsOneMore(dom, current, parts) ==
    IF current = NoElement \/ Len(parts) > SELECTOR_DEPTH THEN parts
    ELSE LET node == dom[current]
             tag == TagOr(node, <<>>)
         IN  IF node.isHTMLElement
             THEN IF node.id # <<>>
                  THEN Append(parts, tag \o <<"#">> \o node.id)
                  ELSE SelectorPartsOneMore(dom, node.parentElement,
                                            Append(parts, tag \o ClassSuffix(node.classList)))
             ELSE SelectorPartsOneMore(dom, node.parentElement, Append(parts, tag))

RECURSIVE SelectorParts(_, _, _)
SelectorParts(dom, current, parts) ==
    IF current = NoElement \/ Len(parts) >= SELECTOR_DEPTH THEN parts
    ELSE LET node == dom[current]
             tag == TagOr(node, <<>>)
         IN  IF node.isHTMLElement
             THEN IF node.id # <<>>
                  THEN Append(parts, tag \o <<"#">> \o node.id)
                  ELSE SelectorParts(dom, node.parentElement,
                                     Append(parts, tag \o ClassSuffix(node.classList)))
             ELSE SelectorParts(dom, node.parentElement, Append(parts, tag))

buildSelector(dom, element) ==
    join(reverse(SelectorParts(dom, element, <<>>)), <<" ",">"," ">>)

\* the loop of buildSelector of the Remix variant: it counts the nodes in
\* depth and names a node without a tag name "element"
RECURSIVE RemixSelectorParts(_, _, _, _)
RemixSelectorParts(dom, current, parts, depth) ==
    IF current = NoElement \/ depth >= SELECTOR_DEPTH THEN parts
    ELSE LET node == dom[current]
             tag == TagOr(node, <<"e","l","e","m","e","n","t">>)
         IN  IF node.isHTMLElement
             THEN IF node.id # <<>>
                  THEN Append(parts, tag \o <<"#">> \o node.id)
                  ELSE RemixSelectorParts(dom, node.parentElement,
                                          Append(parts, tag \o ClassSuffix(node.classList)),
                                          depth + 1)
             ELSE RemixSelectorParts(dom, node.parentElement, Append(parts, tag),
                                     depth + 1)

\* buildSelector of the Remix variant
RemixBuildSelector(dom, element) ==
    join(reverse(RemixSelectorParts(dom, element, <<>>, 0)), <<" ",">"," ">>)

createElementSnapshot(dom, element) ==
    LET node == dom[element]
        tagName == toLowerCase(node.tagName)
        htmlPreview ==
            IF node.isHTMLElement /\ node.outerHTML # <<>>
            THEN IF Len(node.outerHTML) > HTML_LIMIT
                 THEN slice(node.outerHTML, 0, HTML_LIMIT) \o Ellipsis
                 ELSE node.outerHTML
            ELSE <<"<">> \o tagName \o <<" ","/",">">>
        textContent == CollapseWhiteSpace(trim(node.textContent))
        textPreview ==
            IF Len(textContent) > TEXT_LIMIT
            THEN slice(textContent, 0, TEXT_LIMIT) \o Ellipsis
            ELSE textContent
        tagLabel == <<"<">> \o tagName \o <<">">>
    IN  [ selector |-> buildSelector(dom, element),
          elementLabel |-> IF textPreview # <<>>
                           THEN join(<<tagLabel, textPreview>>, LabelSeparator)
                           ELSE tagLabel,
          tagName |-> tagName,
          textPreview |-> textPreview,
          htmlPreview |-> htmlPreview,
          pageUrl |-> PageUrl ]

\* extractComponentName: the first match of the pattern
\*   word boundary, "in", one or more \s, then a captured name made of one
\*   upper-case letter followed by any number of \w or "." characters.
Anonymous == <<"<","a","n","o","n","y","m","o","u","s",">">>

Server == <<"s","e","r","v","e","r">>

\* the end of the longest run of whitespace starting at position i
RECURSIVE SkipWhiteSpace(_, _)
SkipWhiteSpace(s, i) ==
    IF i <= Len(s) /\ s[i] \in WhiteSpace THEN SkipWhiteSpace(s, i + 1) ELSE i

\* the end of the longest run of [\w.] starting at position i
RECURSIVE SkipNameChars(_, _)
SkipNameChars(s, i) ==
    IF i <= Len(s) /\ (IsWordChar(s[i]) \/ s[i] = ".")
    THEN SkipNameChars(s, i + 1) ELSE i

\* does the pattern match with "in" at positions i, i+1 ?
MatchesAt(s, i) ==
    /\ i + 3 <= Len(s)
    /\ s[i] = "i" /\ s[i + 1] = "n"
    /\ (i = 1 \/ ~IsWordChar(s[i - 1]))
    /\ s[i + 2] \in WhiteSpace
    /\ LET j == SkipWhiteSpace(s, i + 2) IN j <= Len(s) /\ IsUpper(s[j])

extractComponentName(context) ==
    LET hits == {i \in DOMAIN context : MatchesAt(context, i)}
    IN  IF hits = {} THEN NULL
        ELSE LET i == CHOOSE h \in hits : \A g \in hits : h <= g
                 j == SkipWhiteSpace(context, i + 2)
                 candidate == SubSeq(context, j, SkipNameChars(context, j) - 1)
             IN  IF candidate = <<>> \/ candidate = Anonymous
                    \/ toLowerCase(candidate) = Server
                 THEN NULL
                 ELSE candidate

(***************************************************************************)
(* Bounds and input sets                                                   *)
(***************************************************************************)
\* how many elements are selected in one run
MaxSelect == 3

\* what formatElementInfo may resolve with
ContextTexts ==
    { <<"a","t"," ","p"," ","i","n"," ","B",".","x">>,
      <<"a","t"," ","p">> }

\* what the user may have in the textarea
FeedbackTexts == { <<>>, <<" ">>, <<" ","o","k">> }

\* the texts typed while only the draft controller is observed
TypedTexts == { <<>>, <<" ","o","k">> }

VARIABLES
    draft,          \* useState<FeedbackDraft | null>
    contextToken,   \* contextTokenRef.current
    describeCalls,  \* formatElementInfo promises not yet settled, each with
                    \* the token and snapshot its callbacks captured
    settledLog,     \* history: the settled describe calls and how each settled
    resetSince,     \* history: the draft was reset after the latest selection
    origin,         \* history: the selection each part of the draft stems from
    overlaps,       \* history: pairs of calls that were pending together
    variant,        \* which implementation runs: "local" (local storage) or "remix"
    storage,        \* local storage: the JSON list under STORAGE_KEY
    db,             \* the rows of the Feedback table, in insertion order
    now,            \* the clock read by new Date()
    lastOp,         \* history: the latest store operation, its input and result
    firstCreate,    \* history: the create that filled the empty store, until
                    \* another create or a status update follows it
    clockSetBack,   \* history: the clock was set back at some point
    opCount,        \* history: how many store operations and clock changes ran
    records,        \* useState<FeedbackRecord[]>: the list the page shows
    isSubmitting,   \* useState(false), local variant
    toast,          \* useState<string | null>
    errorMessage,   \* useState<string | null>, Remix variant
    createFetcher,  \* useFetcher: its state, the form it carries and its data
    pendingCreate,  \* the promise of feedbackService.create not yet settled
    submitLog,      \* history: the creates in flight, the draft as it was when
                    \* the latest was started, and for each record stored for
                    \* a submission its id with the draft as it was then
    updatingRecordIds,  \* useState<Set<string>>, local variant
    pendingUpdates, \* status updates in flight: the promises of
                    \* feedbackService.updateStatus not yet settled, or the
                    \* update-status requests sent and not yet handled
    updateFetcher,  \* useFetcher: its state, the request it waits for, its data
    pendingStatusId,    \* useState<string | null>, Remix variant
    routeError,     \* the action threw and the route's error boundary replaced
                    \* the page, Remix variant
    updateCount,    \* history: how many status changes the user made
    invocation,     \* the call of a function of the page that is looked at: the
                    \* function, its arguments and, once it has returned, its
                    \* result
    serviceCalls    \* the calls of feedbackService in the order they were
                    \* made, each with its arguments, with what its promise
                    \* resolves with and whether its timer has fired

draftVars == <<draft, contextToken, describeCalls>>

historyVars == <<settledLog, resetSince, origin, overlaps>>

storeVars == <<variant, storage, db, now, lastOp, firstCreate, clockSetBack>>

appVars == <<records, isSubmitting, toast, errorMessage, createFetcher, pendingCreate>>

statusVars ==
    <<updatingRecordIds, pendingUpdates, updateFetcher, pendingStatusId, routeError,
      updateCount>>

vars == <<draftVars, historyVars, storeVars, opCount, appVars, submitLog, statusVars, invocation, serviceCalls>>

(***************************************************************************)
(* Draft / context-resolution controller (onElementSelect and the          *)
(* handlers of the draft editor)                                           *)
(***************************************************************************)
\* faulty variant: the text is kept whatever the selector
InstallDraftKeepsText(previous, snapshot) ==
    [ selector |-> snapshot.selector,
      elementLabel |-> snapshot.elementLabel,
      tagName |-> snapshot.tagName,
      textPreview |-> snapshot.textPreview,
      htmlPreview |-> snapshot.htmlPreview,
      pageUrl |-> snapshot.pageUrl,
      context |-> snapshot.htmlPreview,
      componentName |-> IF previous # NoDraft THEN previous.componentName ELSE NULL,
      feedbackText |-> IF previous # NoDraft THEN previous.feedbackText ELSE <<>>,
      isContextPending |-> TRUE ]

\* faulty variant: the name is carried over for the same selector only
InstallDraftDropsName(previous, snapshot) ==
    [ InstallDraftKeepsText(previous, snapshot) EXCEPT
        !.componentName =
            IF previous # NoDraft /\ previous.selector = snapshot.selector
            THEN previous.componentName ELSE NULL,
        !.feedbackText =
            IF previous # NoDraft /\ previous.selector = snapshot.selector
            THEN previous.feedbackText ELSE <<>> ]

\* the updater passed to setDraft on a selection
InstallDraft(previous, snapshot) ==
    LET preserved == IF previous # NoDraft /\ previous.selector = snapshot.selector
                     THEN previous.feedbackText
                     ELSE <<>>
    IN  [ selector |-> snapshot.selector,
          elementLabel |-> snapshot.elementLabel,
          tagName |-> snapshot.tagName,
          textPreview |-> snapshot.textPreview,
          htmlPreview |-> snapshot.htmlPreview,
          pageUrl |-> snapshot.pageUrl,
          context |-> snapshot.htmlPreview,
          componentName |-> IF previous # NoDraft THEN previous.componentName ELSE NULL,
          feedbackText |-> preserved,
          isContextPending |-> TRUE ]

\* faulty variant: no token check
IsStaleNever(current, captured) == FALSE

\* contextTokenRef.current !== currentToken
IsStale(current, captured) == current # captured

\* the updater returns `previous` itself
Discards(previous, snapshot) ==
    previous = NoDraft \/ previous.selector # snapshot.selector

\* faulty variant: the resolved text is not written
MergeResolvedKeepsContext(previous, snapshot, contextText) ==
    IF Discards(previous, snapshot) THEN previous
    ELSE [previous EXCEPT !.componentName = extractComponentName(contextText),
                          !.isContextPending = FALSE]

\* faulty variant: a name carried over is kept when the text names no component
MergeResolvedKeepsName(previous, snapshot, contextText) ==
    IF Discards(previous, snapshot) THEN previous
    ELSE [previous EXCEPT !.context = contextText,
                          !.componentName =
                              IF extractComponentName(contextText) = NULL
                              THEN previous.componentName
                              ELSE extractComponentName(contextText),
                          !.isContextPending = FALSE]

\* the updater passed to setDraft when the describe call resolves
MergeResolved(previous, snapshot, contextText) ==
    IF Discards(previous, snapshot) THEN previous
    ELSE [previous EXCEPT !.context = contextText,
                          !.componentName = extractComponentName(contextText),
                          !.isContextPending = FALSE]

\* faulty variant: a rejection that finds no draft installs one from its snapshot
MergeRejectedInstalls(previous, snapshot) ==
    IF previous = NoDraft
    THEN [InstallDraft(NoDraft, snapshot) EXCEPT !.isContextPending = FALSE]
    ELSE IF previous.selector # snapshot.selector THEN previous
    ELSE [previous EXCEPT !.isContextPending = FALSE]

\* faulty variant: a rejection drops the name carried over
MergeRejectedDropsName(previous, snapshot) ==
    IF Discards(previous, snapshot) THEN previous
    ELSE [previous EXCEPT !.componentName = NULL, !.isContextPending = FALSE]

\* the updater passed to setDraft when the describe call is rejected
MergeRejected(previous, snapshot) ==
    IF Discards(previous, snapshot) THEN previous
    ELSE [previous EXCEPT !.isContextPending = FALSE]

\* faulty variant: the then callback does not check the token
ResolvedUpdateNoTokenCheck(current, call, previous, contextText) ==
    MergeResolved(previous, call.snapshot, contextText)

\* the .then callback
ResolvedUpdate(current, call, previous, contextText) ==
    IF IsStale(current, call.token) THEN previous
    ELSE MergeResolved(previous, call.snapshot, contextText)

\* faulty variant: the catch callback does not check the token
RejectedUpdateNoTokenCheck(current, call, previous) ==
    MergeRejected(previous, call.snapshot)

\* the .catch callback
RejectedUpdate(current, call, previous) ==
    IF IsStale(current, call.token) THEN previous
    ELSE MergeRejected(previous, call.snapshot)

\* a settled call wrote the draft: the callback reached an updater that
\* returned a new draft
Applied(current, call, previous) ==
    ~IsStale(current, call.token) /\ ~Discards(previous, call.snapshot)

\* history: a call issued after `token` has already settled
SettledNewer(token) == \E e \in settledLog : e.token > token

onElementSelect(element) ==
    LET snapshot == createElementSnapshot(Dom, element)
        currentToken == contextToken + 1
    IN  /\ contextToken < MaxSelect
        /\ contextToken' = currentToken
        /\ draft' = InstallDraft(draft, snapshot)
        /\ describeCalls' = describeCalls \cup
                {[token |-> currentToken, snapshot |-> snapshot]}
        /\ resetSince' = FALSE
        /\ origin' = [ snapshot |-> currentToken,
                       context |-> currentToken,
                       componentName |-> IF draft # NoDraft THEN origin.componentName
                                         ELSE currentToken,
                       feedbackText |-> IF draft # NoDraft /\ draft.selector = snapshot.selector
                                        THEN "carried" ELSE "cleared" ]
        /\ overlaps' = overlaps \cup {<<c.token, currentToken>> : c \in describeCalls}
        /\ UNCHANGED settledLog

DescribeResolved(call, contextText) ==
    /\ call \in describeCalls
    /\ describeCalls' = describeCalls \ {call}
    /\ draft' = ResolvedUpdate(contextToken, call, draft, contextText)
    /\ settledLog' = settledLog \cup
            {[ token |-> call.token, outcome |-> "resolved", text |-> contextText,
               applied |-> Applied(contextToken, call, draft),
               afterNewer |-> SettledNewer(call.token) ]}
    /\ origin' = IF Applied(contextToken, call, draft)
                 THEN [origin EXCEPT !.context = call.token,
                                     !.componentName = call.token]
                 ELSE origin
    /\ UNCHANGED <<contextToken, resetSince, overlaps>>

DescribeRejected(call) ==
    /\ call \in describeCalls
    /\ describeCalls' = describeCalls \ {call}
    /\ draft' = RejectedUpdate(contextToken, call, draft)
    /\ settledLog' = settledLog \cup
            {[ token |-> call.token, outcome |-> "rejected", text |-> NULL,
               applied |-> Applied(contextToken, call, draft),
               afterNewer |-> SettledNewer(call.token) ]}
    /\ UNCHANGED <<contextToken, resetSince, origin, overlaps>>

\* the textarea's onChange
ChangeFeedbackText(value) ==
    /\ draft # NoDraft
    /\ draft' = [draft EXCEPT !.feedbackText = value]
    /\ origin' = [origin EXCEPT !.feedbackText = "typed"]
    /\ UNCHANGED <<contextToken, describeCalls, settledLog, resetSince, overlaps>>

handleResetDraft ==
    /\ draft # NoDraft
    /\ draft' = NoDraft
    /\ resetSince' = TRUE
    /\ UNCHANGED <<contextToken, describeCalls, settledLog, origin, overlaps>>

InitDraft ==
    /\ draft = NoDraft
    /\ contextToken = 0
    /\ describeCalls = {}
    /\ settledLog = {}
    /\ resetSince = FALSE
    /\ origin = [snapshot |-> 0, context |-> 0, componentName |-> 0,
                 feedbackText |-> "cleared"]
    /\ overlaps = {}

InitStore ==
    /\ storage = <<>>
    /\ db = <<>>
    /\ now = 1
    /\ lastOp = [op |-> "none"]
    /\ firstCreate = NoRecord
    /\ clockSetBack = FALSE
    /\ opCount = 0

\* no message is shown
NoMessage == "none"

\* no promise is pending; the fetcher has no data yet
NoCall == [kind |-> "none"]

\* no record id: formData.get("id") of a form without one, or the null of
\* pendingStatusId
NoId == "absent"

InitPage ==
    /\ records = <<>>
    /\ isSubmitting = FALSE
    /\ toast = NoMessage
    /\ errorMessage = NoMessage
    /\ createFetcher = [state |-> "idle", form |-> NoCall, data |-> NoCall]
    /\ pendingCreate = NoCall
    /\ submitLog = [inFlight |-> 0, taken |-> NoDraft, stored |-> {}]
    /\ updatingRecordIds = {}
    /\ pendingUpdates = {}
    /\ updateFetcher = [state |-> "idle", request |-> 0, data |-> NoCall]
    /\ pendingStatusId = NoId
    /\ routeError = FALSE
    /\ updateCount = 0
    /\ serviceCalls = <<>>

InitApp ==
    /\ InitPage
    /\ invocation = NoCall

StoreIdle == UNCHANGED <<storeVars, opCount, appVars, submitLog, statusVars, invocation, serviceCalls>>

NextDraft ==
    \/ \E element \in Elements : onElementSelect(element) /\ StoreIdle
    \/ \E call \in describeCalls : \E contextText \in ContextTexts :
            DescribeResolved(call, contextText) /\ StoreIdle
    \/ \E call \in describeCalls : DescribeRejected(call) /\ StoreIdle
    \/ \E value \in TypedTexts : ChangeFeedbackText(value) /\ StoreIdle
    \/ handleResetDraft /\ StoreIdle

InitDraftSpec ==
    /\ InitDraft
    /\ variant = "local"
    /\ InitStore
    /\ InitApp

SpecDraft == InitDraftSpec /\ [][NextDraft]_vars

\* the text formatElementInfo resolves with while the pending flag is followed
SettlingTexts == {<<"a","t"," ","p">>}

\* a promise of formatElementInfo settles, one way or the other
DescribeSettles ==
    \E call \in describeCalls :
        \/ \E contextText \in SettlingTexts :
                DescribeResolved(call, contextText) /\ StoreIdle
        \/ DescribeRejected(call) /\ StoreIdle

\* selecting, settling and resetting: the steps that write isContextPending
\* or the presence of the draft
NextSettling ==
    \/ \E element \in Elements : onElementSelect(element) /\ StoreIdle
    \/ DescribeSettles
    \/ handleResetDraft /\ StoreIdle

\* the draft controller when no promise of formatElementInfo stays pending
\* for ever
SpecDraftSettling == InitDraftSpec /\ [][NextSettling]_vars /\ WF_vars(DescribeSettles)

(***************************************************************************)
(* The feedback store: feedbackService over local storage, and the Remix   *)
(* loader and action over the Feedback table                               *)
(***************************************************************************)
\* how many store operations and clock changes one run makes
MaxOps == 4

\* the ids createId (crypto.randomUUID) and the table's id default can
\* return; an id is never returned twice
IdPool == {"id1", "id2", "id3"}

\* the ids a status update is asked for
RequestIds == {"id1", "id2"}

FeedbackStatus == {"pending", "in_progress", "resolved", "invalid"}

PENDING == <<"P","E","N","D","I","N","G">>

IN_PROGRESS == <<"I","N","_","P","R","O","G","R","E","S","S">>

RESOLVED == <<"R","E","S","O","L","V","E","D">>

INVALID == <<"I","N","V","A","L","I","D">>

STATUS_ORDER == <<PENDING, IN_PROGRESS, RESOLVED, INVALID>>

VALID_STATUS == {STATUS_ORDER[i] : i \in DOMAIN STATUS_ORDER}

\* the inputs create is called with, each a FeedbackCreateInput: one plain,
\* one with text around which there is white space and a component name,
\* one whose feedbackText is blank
CreateInputs ==
    { [ elementLabel |-> snapshot.elementLabel,
        selector |-> snapshot.selector,
        tagName |-> snapshot.tagName,
        textPreview |-> snapshot.textPreview,
        context |-> texts[1],
        pageUrl |-> snapshot.pageUrl,
        htmlPreview |-> snapshot.htmlPreview,
        feedbackText |-> texts[2],
        componentName |-> texts[3] ] :
      snapshot \in {createElementSnapshot(Dom, "B1")},
      texts \in { <<<<"a","t"," ","p">>, <<"o","k">>, NULL>>,
                  <<<<"i","n"," ","B","\n">>, <<" ","o","k">>, <<"B">>>>,
                  <<<<"a","t"," ","p">>, <<" ">>, NULL>> } }

Ids(stored) == {stored[i].id : i \in DOMAIN stored}

\* Array.prototype.findIndex, counting from 1; 0 when there is none
FindIndex(stored, id) ==
    IF \E i \in DOMAIN stored : stored[i].id = id
    THEN CHOOSE i \in DOMAIN stored :
            stored[i].id = id /\ \A j \in 1..(i - 1) : stored[j].id # id
    ELSE 0

\* `record` put into a list sorted by createdAt descending, behind its equals
RECURSIVE InsertByCreatedAtDesc(_, _)
InsertByCreatedAtDesc(sorted, record) ==
    IF sorted = <<>> THEN <<record>>
    ELSE IF Head(sorted).createdAt >= record.createdAt
         THEN <<Head(sorted)>> \o InsertByCreatedAtDesc(Tail(sorted), record)
         ELSE <<record>> \o sorted

\* Array.prototype.sort (stable) with second.createdAt - first.createdAt
RECURSIVE SortByCreatedAtDesc(_)
SortByCreatedAtDesc(stored) ==
    IF stored = <<>> THEN <<>>
    ELSE InsertByCreatedAtDesc(
            SortByCreatedAtDesc(SubSeq(stored, 1, Len(stored) - 1)),
            stored[Len(stored)])

\* faulty variant: the list is returned as stored
ServiceListUnsorted(stored) == stored

\* feedbackService.list: what the promise resolves with
ServiceList(stored) == SortByCreatedAtDesc(stored)

\* faulty variant: another initial status
NewRecordInProgress(input, id, timestamp) ==
    input @@ [ id |-> id, status |-> "in_progress",
               createdAt |-> timestamp, updatedAt |-> timestamp ]

\* feedbackService.create: the record built from the input ({..., ...input}:
\* a field of the input wins over the generated one of the same name)
NewRecord(input, id, timestamp) ==
    input @@ [ id |-> id, status |-> "pending",
               createdAt |-> timestamp, updatedAt |-> timestamp ]

\* faulty variant: the update writes createdAt
UpdatedRecordTouchesCreatedAt(record, status, timestamp) ==
    [record EXCEPT !.status = status, !.createdAt = timestamp]

\* faulty variant: a resolved record is not taken back
UpdatedRecordKeepsResolved(record, status, timestamp) ==
    IF record.status = "resolved" THEN record
    ELSE [record EXCEPT !.status = status, !.updatedAt = timestamp]

\* feedbackService.updateStatus: the record written back
UpdatedRecord(record, status, timestamp) ==
    [record EXCEPT !.status = status, !.updatedAt = timestamp]

\* the calls of feedbackService whose timer has not fired
PendingCalls == {i \in DOMAIN serviceCalls : ~serviceCalls[i].settled}

\* faulty variant: create writes back the list as the oldest call still
\* pending read it, as if reading and writing were apart
ServiceCreateStaleRead(input) ==
    \E id \in IdPool \ Ids(storage) :
        LET record == NewRecord(input, id, now)
            read == IF PendingCalls = {} THEN storage
                    ELSE serviceCalls[CHOOSE i \in PendingCalls :
                                        \A j \in PendingCalls : i <= j].seen
        IN  /\ variant = "local"
            /\ storage' = <<record>> \o read
            /\ lastOp' = [ op |-> "create", input |-> input,
                           result |-> [kind |-> "record", record |-> record] ]
            /\ firstCreate' = IF storage = <<>>
                              THEN [input |-> input, record |-> record]
                              ELSE Voided
            /\ UNCHANGED <<variant, db, now, clockSetBack>>

\* feedbackService.create, up to the simulated latency
ServiceCreate(input) ==
    \E id \in IdPool \ Ids(storage) :
        LET record == NewRecord(input, id, now)
        IN  /\ variant = "local"
            /\ storage' = <<record>> \o storage
            /\ lastOp' = [ op |-> "create", input |-> input,
                           result |-> [kind |-> "record", record |-> record] ]
            /\ firstCreate' = IF storage = <<>>
                              THEN [input |-> input, record |-> record]
                              ELSE Voided
            /\ UNCHANGED <<variant, db, now, clockSetBack>>

\* feedbackService.updateStatus, up to the simulated latency
ServiceUpdateStatus(id, status) ==
    LET index == FindIndex(storage, id)
    IN  /\ variant = "local"
        /\ IF index = 0
           THEN /\ lastOp' = [ op |-> "updateStatus", id |-> id, status |-> status,
                               result |-> [kind |-> "notFound"] ]
                /\ UNCHANGED <<storage, firstCreate>>
           ELSE LET updated == UpdatedRecord(storage[index], status, now)
                IN  /\ storage' = [storage EXCEPT ![index] = updated]
                    /\ lastOp' = [ op |-> "updateStatus", id |-> id, status |-> status,
                                   result |-> [kind |-> "record", record |-> updated] ]
                    /\ firstCreate' = Voided
        /\ UNCHANGED <<variant, db, now, clockSetBack>>

\* feedbackService.list, up to the simulated latency
ServiceListCall ==
    /\ variant = "local"
    /\ lastOp' = [ op |-> "list", filter |-> <<"A","L","L">>,
                   result |-> [kind |-> "list", list |-> ServiceList(storage)] ]
    /\ UNCHANGED <<variant, storage, db, now, firstCreate, clockSetBack>>

(***************************************************************************)
(* The Remix route: action and loader over db.feedback                     *)
(***************************************************************************)
\* a form field that was not appended: formData.get returns null
Absent == NULL

CharToUpper(c) ==
    IF IsLower(c) THEN UpperCase[CHOOSE i \in DOMAIN LowerCase : LowerCase[i] = c]
    ELSE c

toUpperCase(s) == [i \in DOMAIN s |-> CharToUpper(s[i])]

requiredFields ==
    <<"pageUrl", "selector", "elementLabel", "htmlPreview", "context", "feedbackText">>

EmptyForm ==
    [ intent |-> "absent", pageUrl |-> Absent, selector |-> Absent,
      elementLabel |-> Absent, htmlPreview |-> Absent, context |-> Absent,
      feedbackText |-> Absent, componentName |-> Absent, tagName |-> Absent,
      id |-> NoId, status |-> Absent ]

\* a create request carrying the fields of `input`, as the form of
\* handleSubmitDraft carries them
CreateRequest(input) ==
    [ EmptyForm EXCEPT
        !.intent = "create",
        !.pageUrl = input.pageUrl,
        !.selector = input.selector,
        !.elementLabel = input.elementLabel,
        !.htmlPreview = input.htmlPreview,
        !.context = input.context,
        !.feedbackText = input.feedbackText,
        !.componentName = IF input.componentName = NULL THEN <<>>
                          ELSE input.componentName,
        !.tagName = input.tagName ]

\* an update-status request, as the form of handleStatusChange
UpdateStatusRequest(id, status) ==
    [EmptyForm EXCEPT !.intent = "update-status", !.id = id, !.status = status]

\* formData.get(key)?.toString().trim()
TrimmedValue(form, key) ==
    IF form[key] = Absent THEN Absent ELSE trim(form[key])

\* faulty variant: only a field that was not sent counts as missing
IsMissingAbsentOnly(value) == value = Absent

\* !values[key]
IsMissing(value) == value = Absent \/ value = <<>>

\* the first required field without a value, "" when there is none
FirstMissing(form) ==
    LET missing == {i \in DOMAIN requiredFields :
                        IsMissing(TrimmedValue(form, requiredFields[i]))}
    IN  IF missing = {} THEN ""
        ELSE requiredFields[CHOOSE i \in missing : \A j \in missing : i <= j]

\* faulty variant: the values are stored as they were sent
CreateDataUntrimmed(form) ==
    [ pageUrl |-> form.pageUrl,
      selector |-> form.selector,
      elementLabel |-> form.elementLabel,
      htmlPreview |-> form.htmlPreview,
      context |-> form.context,
      feedbackText |-> form.feedbackText,
      componentName |-> IF form.componentName = Absent \/ form.componentName = <<>>
                        THEN NULL ELSE form.componentName,
      status |-> PENDING ]

\* the data handed to db.feedback.create
CreateData(form) ==
    [ pageUrl |-> TrimmedValue(form, "pageUrl"),
      selector |-> TrimmedValue(form, "selector"),
      elementLabel |-> TrimmedValue(form, "elementLabel"),
      htmlPreview |-> TrimmedValue(form, "htmlPreview"),
      context |-> TrimmedValue(form, "context"),
      feedbackText |-> TrimmedValue(form, "feedbackText"),
      componentName |-> IF form.componentName = Absent \/ form.componentName = <<>>
                        THEN NULL ELSE form.componentName,
      status |-> PENDING ]

\* the row the table stores for db.feedback.create: id, createdAt and
\* updatedAt are the defaults of the Feedback model
DbCreatedRow(data, id, timestamp) ==
    data @@ [id |-> id, createdAt |-> timestamp, updatedAt |-> timestamp]

\* the row db.feedback.update writes: updatedAt follows the write
DbUpdatedRow(row, status, timestamp) ==
    [row EXCEPT !.status = status, !.updatedAt = timestamp]

\* the status the update-status branch works with
RequestedStatus(form) ==
    IF form.status = Absent THEN Absent ELSE toUpperCase(form.status)

\* !id || !status || !VALID_STATUS.has(status)
BadStatusRequest(form) ==
    \/ form.id = NoId \/ form.id = ""
    \/ IsMissing(RequestedStatus(form))
    \/ RequestedStatus(form) \notin VALID_STATUS

BadRequest(message) ==
    [kind |-> "badRequest", ok |-> FALSE, httpStatus |-> 400, message |-> message]

\* the action of the route, one request
action(form) ==
    /\ variant = "remix"
    /\ IF form.intent = "create"
       THEN IF FirstMissing(form) # ""
            THEN /\ lastOp' = [ op |-> "create", form |-> form,
                                result |-> BadRequest(FirstMissing(form)) ]
                 /\ UNCHANGED <<db, firstCreate>>
            ELSE \E id \in IdPool \ Ids(db) :
                    LET feedback == DbCreatedRow(CreateData(form), id, now)
                    IN  /\ db' = Append(db, feedback)
                        /\ lastOp' = [ op |-> "create", form |-> form,
                                       result |-> [ kind |-> "record", ok |-> TRUE,
                                                    type |-> "create",
                                                    record |-> feedback ] ]
                        /\ firstCreate' = IF db = <<>>
                                          THEN [form |-> form, record |-> feedback]
                                          ELSE Voided
       ELSE IF form.intent = "update-status"
       THEN IF BadStatusRequest(form)
            THEN /\ lastOp' = [ op |-> "updateStatus", form |-> form,
                                result |-> BadRequest("status") ]
                 /\ UNCHANGED <<db, firstCreate>>
            ELSE LET index == FindIndex(db, form.id)
                 IN  IF index = 0
                     \* db.feedback.update throws when no row has the id;
                     \* the action does not catch it
                     THEN /\ lastOp' = [ op |-> "updateStatus", form |-> form,
                                         result |-> [kind |-> "throw", ok |-> FALSE] ]
                          /\ UNCHANGED <<db, firstCreate>>
                     ELSE LET feedback == DbUpdatedRow(db[index],
                                                       RequestedStatus(form), now)
                          IN  /\ db' = [db EXCEPT ![index] = feedback]
                              /\ lastOp' = [ op |-> "updateStatus", form |-> form,
                                             result |-> [ kind |-> "record", ok |-> TRUE,
                                                          type |-> "update",
                                                          record |-> feedback ] ]
                              /\ firstCreate' = Voided
       ELSE /\ lastOp' = [ op |-> "unknown", form |-> form,
                           result |-> BadRequest("unknown") ]
            /\ UNCHANGED <<db, firstCreate>>
    /\ UNCHANGED <<variant, storage, now, clockSetBack>>

\* the status filter of the loader: the ?status= parameter, upper-cased,
\* when it is a valid status, and "ALL" otherwise
ActiveStatus(statusParam) ==
    IF statusParam # Absent /\ toUpperCase(statusParam) \in VALID_STATUS
    THEN toUpperCase(statusParam) ELSE <<"A","L","L">>

\* db.feedback.findMany({ where, orderBy: { createdAt: "desc" } })
FindMany(rows, activeStatus) ==
    SortByCreatedAtDesc(
        SelectSeq(rows, LAMBDA row : activeStatus = <<"A","L","L">>
                                        \/ row.status = activeStatus))

\* the loader of the route, one request
loader(statusParam) ==
    /\ variant = "remix"
    /\ lastOp' = [ op |-> "list", filter |-> ActiveStatus(statusParam),
                   result |-> [ kind |-> "list",
                                list |-> FindMany(db, ActiveStatus(statusParam)) ] ]
    /\ UNCHANGED <<variant, storage, db, now, firstCreate, clockSetBack>>

\* the requests sent to the action
ActionRequests ==
    {CreateRequest(input) : input \in CreateInputs}
    \cup {[CreateRequest(input) EXCEPT !.htmlPreview = Absent] : input \in CreateInputs}
    \cup {UpdateStatusRequest(id, status) :
            id \in RequestIds \cup {""},
            status \in {RESOLVED, <<"i","n","v","a","l","i","d">>,
                        <<"d","o","n","e">>, Absent}}
    \cup {UpdateStatusRequest("id1", status) :
            status \in {IN_PROGRESS, <<"p","e","n","d","i","n","g">>}}
    \cup {[EmptyForm EXCEPT !.intent = "delete"], EmptyForm}

\* the ?status= parameters sent to the loader
StatusParams == {Absent, <<"r","e","s","o","l","v","e","d">>, <<"d","o","n","e">>}

\* time passes
Tick ==
    /\ now' = now + 1
    /\ UNCHANGED <<variant, storage, db, lastOp, firstCreate, clockSetBack>>

\* the system clock is set back
ClockSetBack ==
    /\ now > 1
    /\ now' = now - 1
    /\ clockSetBack' = TRUE
    /\ UNCHANGED <<variant, storage, db, lastOp, firstCreate>>

InitStoreSpec ==
    /\ InitDraft
    /\ variant \in {"local", "remix"}
    /\ InitStore
    /\ InitApp

DraftIdle == UNCHANGED <<draftVars, historyVars, appVars, submitLog, statusVars, invocation, serviceCalls>>

\* one more store operation or clock change, within the run's length
Counted == opCount < MaxOps /\ opCount' = opCount + 1

NextStore ==
    \/ \E input \in CreateInputs : ServiceCreate(input) /\ Counted /\ DraftIdle
    \/ \E id \in RequestIds : \E status \in FeedbackStatus :
            ServiceUpdateStatus(id, status) /\ Counted /\ DraftIdle
    \/ ServiceListCall /\ UNCHANGED opCount /\ DraftIdle
    \/ \E form \in ActionRequests : action(form) /\ Counted /\ DraftIdle
    \/ \E statusParam \in StatusParams :
            loader(statusParam) /\ UNCHANGED opCount /\ DraftIdle
    \/ Tick /\ Counted /\ DraftIdle
    \/ ClockSetBack /\ Counted /\ DraftIdle

SpecStore == InitStoreSpec /\ [][NextStore]_vars

(***************************************************************************)
(* The page: submitting the draft, in the local variant (App) and in the   *)
(* Remix variant (the feedback route)                                      *)
(***************************************************************************)
\* how many selections a run of the page makes
MaxPicks == 1

\* how many records a run of the page stores
MaxRecords == 1

\* the elements picked on the page
PageElements == {"B1"}

\* the texts formatElementInfo resolves with on the page: one that names a
\* component, and a blank one
PageContexts == {<<"a","t"," ","p"," ","i","n"," ","B",".","x">>, <<" ">>}

\* the texts typed into the feedback box of the page
PageTexts == {<<" ">>, <<" ","o","k">>}

\* showToast("请先输入反馈内容"): enter the feedback text first
TOAST_ENTER_TEXT == "toast: enter the feedback text first"

\* showToast("反馈已提交并存储"): the feedback was submitted and stored
TOAST_SUBMITTED == "toast: feedback submitted and stored"

\* showToast("提交失败，请重试"): the submission failed, try again
TOAST_SUBMIT_FAILED == "toast: submission failed"

\* setErrorMessage("请填写反馈内容"): fill in the feedback text
ERROR_FILL_TEXT == "error: fill in the feedback text"

\* setToast("反馈提交成功"): the feedback was submitted
TOAST_REMIX_SUBMITTED == "toast: feedback submitted"

\* faulty variant: the text is not trimmed
IsBlankOnlyWhenEmpty(text) == text = <<>>

\* faulty variant: the text is stored as typed
DraftInputUntrimmed(current) ==
    [ elementLabel |-> current.elementLabel,
      selector |-> current.selector,
      tagName |-> current.tagName,
      textPreview |-> current.textPreview,
      context |-> current.context,
      pageUrl |-> current.pageUrl,
      htmlPreview |-> current.htmlPreview,
      feedbackText |-> current.feedbackText,
      componentName |-> current.componentName ]

\* !draft.feedbackText.trim()
IsBlank(text) == trim(text) = <<>>

\* faulty variant: a draft whose context is pending is stored without a name
DraftInputPendingNameless(current) ==
    [ elementLabel |-> current.elementLabel,
      selector |-> current.selector,
      tagName |-> current.tagName,
      textPreview |-> current.textPreview,
      context |-> current.context,
      pageUrl |-> current.pageUrl,
      htmlPreview |-> current.htmlPreview,
      feedbackText |-> trim(current.feedbackText),
      componentName |-> IF current.isContextPending THEN NULL
                        ELSE current.componentName ]

\* the input handleSubmitDraft of the local variant hands to create
DraftInput(current) ==
    [ elementLabel |-> current.elementLabel,
      selector |-> current.selector,
      tagName |-> current.tagName,
      textPreview |-> current.textPreview,
      context |-> current.context,
      pageUrl |-> current.pageUrl,
      htmlPreview |-> current.htmlPreview,
      feedbackText |-> trim(current.feedbackText),
      componentName |-> current.componentName ]

\* the form handleSubmitDraft of the Remix variant submits
DraftForm(current) ==
    CreateRequest([current EXCEPT !.feedbackText = trim(current.feedbackText)])

\* faulty variant: the draft is dropped
ClearDraft(previous) == NoDraft

\* setDraft(previous => previous ? {...previous, feedbackText: ""} : previous)
ClearFeedbackText(previous) ==
    IF previous = NoDraft THEN previous
    ELSE [previous EXCEPT !.feedbackText = <<>>]

\* handleSubmitDraft of the local variant, up to its await: the button is
\* disabled while isSubmitting or without a draft; create reads and writes
\* storage before its latency, or setItem throws and the promise rejects
handleSubmitDraft ==
    /\ variant = "local"
    /\ draft # NoDraft
    /\ ~isSubmitting
    /\ IF IsBlank(draft.feedbackText)
       THEN /\ toast' = TOAST_ENTER_TEXT
            /\ UNCHANGED <<isSubmitting, pendingCreate, storeVars>>
       ELSE /\ isSubmitting' = TRUE
            /\ \/ /\ ServiceCreate(DraftInput(draft))
                  /\ pendingCreate' = lastOp'.result
               \/ /\ pendingCreate' = [kind |-> "rejected"]
                  /\ UNCHANGED storeVars
            /\ UNCHANGED toast
    /\ UNCHANGED <<draftVars, historyVars, records, errorMessage, createFetcher>>

\* handleSubmitDraft after its await: the try, catch and finally blocks
CreateSettled ==
    /\ variant = "local"
    /\ pendingCreate # NoCall
    /\ IF pendingCreate.kind = "record"
       THEN /\ records' = <<pendingCreate.record>> \o records
            /\ toast' = TOAST_SUBMITTED
            /\ draft' = ClearFeedbackText(draft)
            /\ origin' = IF draft = NoDraft THEN origin
                         ELSE [origin EXCEPT !.feedbackText = "cleared"]
       ELSE /\ toast' = TOAST_SUBMIT_FAILED
            /\ UNCHANGED <<records, draft, origin>>
    /\ isSubmitting' = FALSE
    /\ pendingCreate' = NoCall
    /\ UNCHANGED <<contextToken, describeCalls, settledLog, resetSince, overlaps,
                   storeVars, errorMessage, createFetcher>>

\* the timer of the toast effect fires
ToastTimeout ==
    /\ toast # NoMessage
    /\ toast' = NoMessage
    /\ UNCHANGED <<draftVars, historyVars, storeVars, records, isSubmitting,
                   errorMessage, createFetcher, pendingCreate>>

\* handleSubmitDraft of the Remix variant: the button is rendered with a
\* draft only and disabled while the fetcher is not idle
RemixHandleSubmitDraft ==
    /\ variant = "remix"
    /\ draft # NoDraft
    /\ createFetcher.state = "idle"
    /\ IF IsBlank(draft.feedbackText)
       THEN /\ errorMessage' = ERROR_FILL_TEXT
            /\ UNCHANGED createFetcher
       ELSE /\ createFetcher' = [ createFetcher EXCEPT !.state = "submitting",
                                                        !.form = DraftForm(draft) ]
            /\ UNCHANGED errorMessage
    /\ UNCHANGED <<draftVars, historyVars, storeVars, records, isSubmitting,
                   toast, pendingCreate>>

\* the request of the fetcher reaches the action
CreateFetcherAction ==
    /\ variant = "remix"
    /\ createFetcher.state = "submitting"
    /\ action(createFetcher.form)
    /\ createFetcher' = [ createFetcher EXCEPT !.state = "loading",
                                                !.data = lastOp'.result ]
    /\ UNCHANGED <<draftVars, historyVars, records, isSubmitting, toast,
                   errorMessage, pendingCreate>>

\* the loader has run again and the fetcher is idle: setRecords(feedbacks)
\* and the effect on createFetcher.state and createFetcher.data
CreateFetcherIdle ==
    /\ variant = "remix"
    /\ createFetcher.state = "loading"
    /\ loader(Absent)
    /\ records' = lastOp'.result.list
    /\ createFetcher' = [createFetcher EXCEPT !.state = "idle"]
    /\ IF createFetcher.data.ok
       THEN /\ toast' = TOAST_REMIX_SUBMITTED
            /\ errorMessage' = NoMessage
            /\ draft' = ClearFeedbackText(draft)
            /\ origin' = IF draft = NoDraft THEN origin
                         ELSE [origin EXCEPT !.feedbackText = "cleared"]
       ELSE /\ errorMessage' = createFetcher.data.message
            /\ UNCHANGED <<toast, draft, origin>>
    /\ UNCHANGED <<contextToken, describeCalls, settledLog, resetSince, overlaps,
                   isSubmitting, pendingCreate>>

PageIdle == UNCHANGED <<storeVars, opCount, appVars, submitLog, statusVars, invocation, serviceCalls>>

\* history of handleSubmitDraft of the local variant: a create was started
\* when isSubmitting was set, and stored a record when its promise holds one
LogLocalSubmit ==
    submitLog' =
        IF isSubmitting' /\ pendingCreate' # NoCall /\ draft # NoDraft
        THEN [ inFlight |-> submitLog.inFlight + 1,
               taken |-> draft,
               stored |-> IF pendingCreate'.kind = "record"
                          THEN submitLog.stored \cup
                               {[draft |-> draft, id |-> pendingCreate'.record.id]}
                          ELSE submitLog.stored ]
        ELSE submitLog

\* history of the settled create, in either variant
LogSettled ==
    submitLog' = [submitLog EXCEPT !.inFlight = @ - 1, !.taken = NoDraft]

\* history of handleSubmitDraft of the Remix variant
LogRemixSubmit ==
    submitLog' =
        IF createFetcher' # createFetcher
        THEN [submitLog EXCEPT !.inFlight = @ + 1, !.taken = draft]
        ELSE submitLog

\* history of the action run for the fetcher
LogRemixAction ==
    submitLog' =
        IF lastOp'.result.kind = "record"
        THEN [submitLog EXCEPT !.stored = @ \cup
                {[draft |-> submitLog.taken, id |-> lastOp'.result.record.id]}]
        ELSE submitLog

Next ==
    \/ \E element \in PageElements :
            contextToken < MaxPicks /\ onElementSelect(element) /\ PageIdle
    \/ \E call \in describeCalls : \E contextText \in PageContexts :
            DescribeResolved(call, contextText) /\ PageIdle
    \/ \E call \in describeCalls : DescribeRejected(call) /\ PageIdle
    \/ \E value \in PageTexts : ChangeFeedbackText(value) /\ PageIdle
    \/ handleResetDraft /\ PageIdle
    \/ /\ handleSubmitDraft
       /\ IsBlank(draft.feedbackText) \/ Len(storage) < MaxRecords
       /\ LogLocalSubmit
       /\ UNCHANGED <<opCount, statusVars, invocation, serviceCalls>>
    \/ CreateSettled /\ LogSettled /\ UNCHANGED <<opCount, statusVars, invocation, serviceCalls>>
    \/ ToastTimeout /\ UNCHANGED <<opCount, submitLog, statusVars, invocation, serviceCalls>>
    \/ /\ RemixHandleSubmitDraft
       /\ IsBlank(draft.feedbackText) \/ Len(db) < MaxRecords
       /\ LogRemixSubmit
       /\ UNCHANGED <<opCount, statusVars, invocation, serviceCalls>>
    \/ CreateFetcherAction /\ LogRemixAction /\ UNCHANGED <<opCount, statusVars, invocation, serviceCalls>>
    \/ CreateFetcherIdle /\ LogSettled /\ UNCHANGED <<opCount, statusVars, invocation, serviceCalls>>

Spec == InitStoreSpec /\ [][Next]_vars

(***************************************************************************)
(* The page while a create is in flight: selecting and typing go on        *)
(***************************************************************************)
\* the elements picked after the first
FlightElements == {"B1", "A"}

\* the text typed after the first
FlightTexts == {<<"n","o">>}

\* B1 was selected, its describe call resolved with a text that names a
\* component, and a text was typed
NamedDraft ==
    LET contextText == <<"a","t"," ","p"," ","i","n"," ","B",".","x">>
    IN  /\ draft = [ InstallDraft(NoDraft, createElementSnapshot(Dom, "B1"))
                        EXCEPT !.context = contextText,
                               !.componentName = extractComponentName(contextText),
                               !.isContextPending = FALSE,
                               !.feedbackText = <<" ","o","k">> ]
        /\ contextToken = 1
        /\ describeCalls = {}
        /\ settledLog = {[ token |-> 1, outcome |-> "resolved", text |-> contextText,
                           applied |-> TRUE, afterNewer |-> FALSE ]}
        /\ resetSince = FALSE
        /\ origin = [snapshot |-> 1, context |-> 1, componentName |-> 1,
                     feedbackText |-> "typed"]
        /\ overlaps = {}

InitFlight ==
    /\ NamedDraft
    /\ variant \in {"local", "remix"}
    /\ InitStore
    /\ InitApp

NextFlight ==
    \/ \E element \in FlightElements :
            contextToken < MaxPicks + 1 /\ onElementSelect(element) /\ PageIdle
    \/ \E call \in describeCalls : \E contextText \in PageContexts :
            DescribeResolved(call, contextText) /\ PageIdle
    \/ \E call \in describeCalls : DescribeRejected(call) /\ PageIdle
    \/ \E value \in FlightTexts : ChangeFeedbackText(value) /\ PageIdle
    \/ /\ handleSubmitDraft
       /\ Len(storage) < MaxRecords
       /\ LogLocalSubmit
       /\ UNCHANGED <<opCount, statusVars, invocation, serviceCalls>>
    \/ CreateSettled /\ LogSettled /\ UNCHANGED <<opCount, statusVars, invocation, serviceCalls>>
    \/ /\ RemixHandleSubmitDraft
       /\ Len(db) < MaxRecords
       /\ LogRemixSubmit
       /\ UNCHANGED <<opCount, statusVars, invocation, serviceCalls>>
    \/ CreateFetcherAction /\ LogRemixAction /\ UNCHANGED <<opCount, statusVars, invocation, serviceCalls>>
    \/ CreateFetcherIdle /\ LogSettled /\ UNCHANGED <<opCount, statusVars, invocation, serviceCalls>>

SpecFlight == InitFlight /\ [][NextFlight]_vars

(***************************************************************************)
(* The page: the status control of a record                                *)
(***************************************************************************)
\* how many status changes the user makes in one run
MaxUpdates == 3

\* the options the user picks in the status control
PageStatuses ==
    IF variant = "local" THEN {"in_progress", "resolved"}
    ELSE {IN_PROGRESS, RESOLVED}

\* showToast("记录不存在"): the record does not exist
TOAST_NOT_FOUND == "toast: the record does not exist"

\* showToast("状态已更新"), setToast("状态已更新"): the status was updated
TOAST_STATUS_UPDATED == "toast: status updated"

\* showToast("状态更新失败"): the status update failed
TOAST_STATUS_FAILED == "toast: status update failed"

\* the record the list shows under an id
ShownRecord(id) == records[FindIndex(records, id)]

\* faulty variant: the list keeps the record it showed
ReplaceRecordKeepsShown(previous, updated) == previous

\* previous.map((item) => (item.id === updated.id ? updated : item))
ReplaceRecord(previous, updated) ==
    [i \in DOMAIN previous |->
        IF previous[i].id = updated.id THEN updated ELSE previous[i]]

\* the disabled attribute of the status control of a record
IsUpdating(id) ==
    IF variant = "local" THEN id \in updatingRecordIds
    ELSE updateFetcher.state # "idle" /\ pendingStatusId = id

\* handleStatusChange of the local variant, up to its await: updateStatus
\* reads and writes storage before its latency, or setItem throws and the
\* promise rejects
handleStatusChange(id, status) ==
    /\ variant = "local"
    /\ FindIndex(records, id) # 0
    /\ ~IsUpdating(id)
    /\ ShownRecord(id).status # status
    /\ updatingRecordIds' = updatingRecordIds \cup {id}
    /\ updateCount' = updateCount + 1
    /\ \/ /\ ServiceUpdateStatus(id, status)
          /\ pendingUpdates' = pendingUpdates \cup
                {[ request |-> updateCount + 1, id |-> id, status |-> status,
                   result |-> lastOp'.result ]}
       \/ /\ FindIndex(storage, id) # 0
          /\ pendingUpdates' = pendingUpdates \cup
                {[ request |-> updateCount + 1, id |-> id, status |-> status,
                   result |-> [kind |-> "rejected"] ]}
          /\ UNCHANGED storeVars
    /\ UNCHANGED <<draftVars, historyVars, opCount, appVars, submitLog, invocation,
                   updateFetcher, pendingStatusId, routeError>>

\* handleStatusChange after its await: the try, catch and finally blocks
StatusChangeSettled(update) ==
    /\ variant = "local"
    /\ update \in pendingUpdates
    /\ pendingUpdates' = pendingUpdates \ {update}
    /\ IF update.result.kind = "record"
       THEN /\ records' = ReplaceRecord(records, update.result.record)
            /\ toast' = TOAST_STATUS_UPDATED
       ELSE IF update.result.kind = "notFound"
       THEN /\ toast' = TOAST_NOT_FOUND
            /\ UNCHANGED records
       ELSE /\ toast' = TOAST_STATUS_FAILED
            /\ UNCHANGED records
    /\ updatingRecordIds' = updatingRecordIds \ {update.id}
    /\ UNCHANGED <<draftVars, historyVars, storeVars, opCount, submitLog, invocation,
                   isSubmitting, errorMessage, createFetcher, pendingCreate,
                   updateFetcher, pendingStatusId, routeError, updateCount>>

\* the key of the list is removed from local storage (site data is cleared):
\* readFromStorage then returns []
StorageCleared ==
    /\ variant = "local"
    /\ storage # <<>>
    /\ storage' = <<>>
    /\ UNCHANGED <<variant, db, now, lastOp, firstCreate, clockSetBack>>
    /\ UNCHANGED <<draftVars, historyVars, opCount, appVars, submitLog, statusVars, invocation, serviceCalls>>

\* the request the fetcher waits for, if it has been sent and not handled yet
AwaitedUpdates ==
    {update \in pendingUpdates :
        updateFetcher.state = "submitting" /\ update.request = updateFetcher.request}

\* handleStatusChange of the Remix variant. updateFetcher.submit on a fetcher
\* that waits for a response gives that response up: the request it sent was
\* either not received and is never handled, or it is handled all the same
RemixHandleStatusChange(id, status) ==
    /\ variant = "remix"
    /\ ~routeError
    /\ FindIndex(records, id) # 0
    /\ ~IsUpdating(id)
    /\ ShownRecord(id).status # status
    /\ pendingStatusId' = id
    /\ updateCount' = updateCount + 1
    /\ updateFetcher' = [ updateFetcher EXCEPT !.state = "submitting",
                                                !.request = updateCount + 1 ]
    /\ \E kept \in {pendingUpdates, pendingUpdates \ AwaitedUpdates} :
            pendingUpdates' = kept \cup
                {[ request |-> updateCount + 1, id |-> id,
                   form |-> UpdateStatusRequest(id, status) ]}
    /\ UNCHANGED <<draftVars, historyVars, storeVars, opCount, appVars, submitLog, invocation, serviceCalls,
                   updatingRecordIds, routeError>>

\* an update-status request reaches the action. db.feedback.update may
\* reject (the action has no try/catch, the route and the root export no
\* ErrorBoundary); a response nobody waits for is dropped
UpdateFetcherAction(update) ==
    /\ variant = "remix"
    /\ update \in pendingUpdates
    /\ pendingUpdates' = pendingUpdates \ {update}
    /\ \/ action(update.form)
       \/ /\ lastOp' = [ op |-> "updateStatus", form |-> update.form,
                         result |-> [kind |-> "throw", ok |-> FALSE] ]
          /\ UNCHANGED <<variant, storage, db, now, firstCreate, clockSetBack>>
    /\ IF update \in AwaitedUpdates
       THEN IF lastOp'.result.kind = "throw"
            THEN /\ routeError' = TRUE
                 /\ updateFetcher' = [updateFetcher EXCEPT !.state = "idle"]
            ELSE /\ updateFetcher' = [ updateFetcher EXCEPT !.state = "loading",
                                                             !.data = lastOp'.result ]
                 /\ UNCHANGED routeError
       ELSE UNCHANGED <<updateFetcher, routeError>>
    /\ UNCHANGED <<draftVars, historyVars, opCount, appVars, submitLog, invocation, serviceCalls,
                   updatingRecordIds, pendingStatusId, updateCount>>

\* the loader has run again and the fetcher is idle: setRecords(feedbacks)
\* and the effect on updateFetcher.state and updateFetcher.data
UpdateFetcherIdle ==
    /\ variant = "remix"
    /\ updateFetcher.state = "loading"
    /\ loader(Absent)
    /\ records' = lastOp'.result.list
    /\ updateFetcher' = [updateFetcher EXCEPT !.state = "idle"]
    /\ pendingStatusId' = NoId
    /\ IF updateFetcher.data.ok
       THEN /\ toast' = TOAST_STATUS_UPDATED
            /\ errorMessage' = NoMessage
       ELSE /\ errorMessage' = updateFetcher.data.message
            /\ UNCHANGED toast
    /\ UNCHANGED <<draftVars, historyVars, opCount, submitLog, invocation, serviceCalls, isSubmitting,
                   createFetcher, pendingCreate, updatingRecordIds, pendingUpdates,
                   routeError, updateCount>>

\* two feedbacks were submitted for the first input and the page has loaded
\* the list
StoredTwice ==
    LET input == CHOOSE input \in CreateInputs :
                    input.feedbackText = <<"o","k">>
    IN  /\ storage = IF variant = "local"
                     THEN << NewRecord(input, "id2", 2), NewRecord(input, "id1", 1) >>
                     ELSE <<>>
        /\ db = IF variant = "remix"
                THEN << DbCreatedRow(CreateData(CreateRequest(input)), "id1", 1),
                        DbCreatedRow(CreateData(CreateRequest(input)), "id2", 2) >>
                ELSE <<>>
        /\ records = IF variant = "local" THEN ServiceList(storage)
                     ELSE FindMany(db, <<"A","L","L">>)

\* B1 was selected, its describe call was rejected and a text was typed
TypedDraft ==
    /\ draft = [ InstallDraft(NoDraft, createElementSnapshot(Dom, "B1"))
                    EXCEPT !.isContextPending = FALSE,
                           !.feedbackText = <<" ","o","k">> ]
    /\ contextToken = 1
    /\ describeCalls = {}
    /\ settledLog = {[ token |-> 1, outcome |-> "rejected", text |-> NULL,
                       applied |-> TRUE, afterNewer |-> FALSE ]}
    /\ resetSince = FALSE
    /\ origin = [snapshot |-> 1, context |-> 1, componentName |-> 1,
                 feedbackText |-> "typed"]
    /\ overlaps = {}

InitStatus ==
    /\ TypedDraft
    /\ variant \in {"local", "remix"}
    /\ StoredTwice
    /\ now = 3
    /\ lastOp = [op |-> "none"]
    /\ firstCreate = Voided
    /\ clockSetBack = FALSE
    /\ opCount = 2
    /\ isSubmitting = FALSE
    /\ toast = NoMessage
    /\ errorMessage = NoMessage
    /\ createFetcher = [state |-> "idle", form |-> NoCall, data |-> NoCall]
    /\ pendingCreate = NoCall
    /\ submitLog = [inFlight |-> 0, taken |-> NoDraft, stored |-> {}]
    /\ updatingRecordIds = {}
    /\ pendingUpdates = {}
    /\ updateFetcher = [state |-> "idle", request |-> 0, data |-> NoCall]
    /\ pendingStatusId = NoId
    /\ routeError = FALSE
    /\ updateCount = 0
    /\ invocation = NoCall
    /\ serviceCalls = <<>>

NextStatus ==
    \/ \E id \in RequestIds : \E status \in PageStatuses :
            /\ updateCount < MaxUpdates /\ handleStatusChange(id, status)
            /\ UNCHANGED serviceCalls
    \/ \E update \in pendingUpdates :
            StatusChangeSettled(update) /\ UNCHANGED serviceCalls
    \/ StorageCleared
    \/ \E id \in RequestIds : \E status \in PageStatuses :
            updateCount < MaxUpdates /\ RemixHandleStatusChange(id, status)
    \/ \E update \in pendingUpdates : UpdateFetcherAction(update)
    \/ UpdateFetcherIdle
    \/ ToastTimeout /\ UNCHANGED <<opCount, submitLog, statusVars, invocation, serviceCalls>>
    \/ /\ handleSubmitDraft
       /\ IsBlank(draft.feedbackText) \/ Len(records) < MaxRecords + 2
       /\ LogLocalSubmit
       /\ UNCHANGED <<opCount, statusVars, invocation, serviceCalls>>
    \/ CreateSettled /\ LogSettled /\ UNCHANGED <<opCount, statusVars, invocation, serviceCalls>>
    \/ /\ RemixHandleSubmitDraft
       /\ ~routeError
       /\ IsBlank(draft.feedbackText) \/ Len(db) < MaxRecords + 2
       /\ LogRemixSubmit
       /\ UNCHANGED <<opCount, statusVars, invocation, serviceCalls>>
    \/ CreateFetcherAction /\ LogRemixAction /\ UNCHANGED <<opCount, statusVars, invocation, serviceCalls>>
    \/ CreateFetcherIdle /\ LogSettled /\ UNCHANGED <<opCount, statusVars, invocation, serviceCalls>>

SpecStatus == InitStatus /\ [][NextStatus]_vars

(***************************************************************************)
(* feedbackService called again while earlier calls wait for their timers  *)
(***************************************************************************)
\* the inputs of the overlapping creates
OverlapInputs == {input \in CreateInputs : input.feedbackText = <<"o","k">>}

\* the statuses of the overlapping updates
OverlapStatuses == {"resolved", "invalid"}

\* a call of feedbackService as it is recorded when it is made
ServiceCall(op, arguments) ==
    [ op |-> op, arguments |-> arguments, at |-> now, seen |-> storage,
      result |-> lastOp'.result, settled |-> FALSE ]

\* feedbackService.create is called: the body runs up to withLatency
CallCreate(input) ==
    /\ ServiceCreate(input)
    /\ serviceCalls' = Append(serviceCalls, ServiceCall("create", [input |-> input]))
    /\ UNCHANGED <<draftVars, historyVars, appVars, submitLog, statusVars, invocation>>

\* feedbackService.updateStatus is called: the body runs up to withLatency
CallUpdateStatus(id, status) ==
    /\ ServiceUpdateStatus(id, status)
    /\ serviceCalls' = Append(serviceCalls,
            ServiceCall("updateStatus", [id |-> id, status |-> status]))
    /\ UNCHANGED <<draftVars, historyVars, appVars, submitLog, statusVars, invocation>>

\* the timer of withLatency fires for a call and its promise resolves
LatencyElapsed(i) ==
    /\ i \in PendingCalls
    /\ serviceCalls' = [serviceCalls EXCEPT ![i].settled = TRUE]
    /\ UNCHANGED <<draftVars, historyVars, storeVars, opCount, appVars, submitLog,
                   statusVars, invocation>>

InitOverlap ==
    /\ InitDraft
    /\ variant = "local"
    /\ InitStore
    /\ InitApp

\* the promises resolve in any order
NextOverlap ==
    \/ \E input \in OverlapInputs : CallCreate(input) /\ Counted
    \/ \E id \in RequestIds : \E status \in OverlapStatuses :
            CallUpdateStatus(id, status) /\ Counted
    \/ \E i \in PendingCalls : LatencyElapsed(i)
    \/ Tick /\ Counted /\ DraftIdle

SpecOverlap == InitOverlap /\ [][NextOverlap]_vars

(***************************************************************************)
(* The local page from its mount: the list is loaded while the user        *)
(* submits and changes statuses                                            *)
(***************************************************************************)
\* the call whose timer fires next: every call waits LATENCY_MS, so the
\* timers fire in the order in which the calls were made; 0 without one
NextTimer ==
    IF PendingCalls = {} THEN 0
    ELSE CHOOSE i \in PendingCalls : \A j \in PendingCalls : i <= j

\* the promise of a call settles: a rejected one right away (the body threw
\* before withLatency), any other when its timer is the next to fire
PromiseSettles(op, request, kind) ==
    IF kind = "rejected" THEN UNCHANGED serviceCalls
    ELSE /\ NextTimer # 0
         /\ serviceCalls[NextTimer].op = op
         /\ serviceCalls[NextTimer].arguments.request = request
         /\ serviceCalls' = [serviceCalls EXCEPT ![NextTimer].settled = TRUE]

\* handleSubmitDraft has called create and the call has set its timer
LogCreateCall ==
    serviceCalls' =
        IF pendingCreate = NoCall /\ pendingCreate' # NoCall
           /\ pendingCreate'.kind = "record"
        THEN Append(serviceCalls, ServiceCall("create", [request |-> 0]))
        ELSE serviceCalls

\* handleStatusChange has called updateStatus and the call has set its timer
LogUpdateCall ==
    serviceCalls' =
        IF \E update \in pendingUpdates' \ pendingUpdates :
                update.result.kind # "rejected"
        THEN Append(serviceCalls,
                    ServiceCall("updateStatus", [request |-> updateCount']))
        ELSE serviceCalls

\* the promise of the list() of the mount effect resolves: setRecords(list)
ListLoaded ==
    /\ variant = "local"
    /\ PromiseSettles("list", 0, "list")
    /\ records' = serviceCalls[NextTimer].result.list
    /\ UNCHANGED <<draftVars, historyVars, storeVars, opCount, isSubmitting, toast,
                   errorMessage, createFetcher, pendingCreate, submitLog, statusVars,
                   invocation>>

\* what local storage holds when the page is opened: nothing, or the two
\* records of an earlier visit
StoredBefore ==
    LET input == CHOOSE input \in CreateInputs : input.feedbackText = <<"o","k">>
    IN  {<<>>, <<NewRecord(input, "id2", 2), NewRecord(input, "id1", 1)>>}

\* the page after its mount effect has called list(), with a draft typed
\* before the list has arrived
InitList ==
    /\ TypedDraft
    /\ variant = "local"
    /\ storage \in StoredBefore
    /\ db = <<>>
    /\ now = 3
    /\ lastOp = [ op |-> "list", filter |-> <<"A","L","L">>,
                  result |-> [kind |-> "list", list |-> ServiceList(storage)] ]
    /\ firstCreate = Voided
    /\ clockSetBack = FALSE
    /\ opCount = 0
    /\ records = <<>>
    /\ isSubmitting = FALSE
    /\ toast = NoMessage
    /\ errorMessage = NoMessage
    /\ createFetcher = [state |-> "idle", form |-> NoCall, data |-> NoCall]
    /\ pendingCreate = NoCall
    /\ submitLog = [inFlight |-> 0, taken |-> NoDraft, stored |-> {}]
    /\ updatingRecordIds = {}
    /\ pendingUpdates = {}
    /\ updateFetcher = [state |-> "idle", request |-> 0, data |-> NoCall]
    /\ pendingStatusId = NoId
    /\ routeError = FALSE
    /\ updateCount = 0
    /\ invocation = NoCall
    /\ serviceCalls = << [ op |-> "list", arguments |-> [request |-> 0], at |-> now,
                           seen |-> storage, result |-> lastOp.result,
                           settled |-> FALSE ] >>

NextList ==
    \/ ListLoaded
    \/ /\ handleSubmitDraft
       /\ Len(storage) < MaxRecords + 2
       /\ LogLocalSubmit /\ LogCreateCall
       /\ UNCHANGED <<opCount, statusVars, invocation>>
    \/ /\ CreateSettled
       /\ PromiseSettles("create", 0, pendingCreate.kind)
       /\ LogSettled
       /\ UNCHANGED <<opCount, statusVars, invocation>>
    \/ \E value \in FlightTexts :
            ChangeFeedbackText(value)
            /\ UNCHANGED <<storeVars, opCount, appVars, submitLog, statusVars,
                           invocation, serviceCalls>>
    \/ \E id \in {"id1", "id3"} : \E status \in OverlapStatuses :
            /\ updateCount < MaxUpdates - 1 /\ handleStatusChange(id, status)
            /\ LogUpdateCall
    \/ \E update \in pendingUpdates :
            /\ StatusChangeSettled(update)
            /\ PromiseSettles("updateStatus", update.request, update.result.kind)

SpecList == InitList /\ [][NextList]_vars

(***************************************************************************)
(* The functions of the page, called on their own                          *)
(***************************************************************************)
\* the values of FeedbackStatus in the variant that runs
StatusValues == IF variant = "local" THEN FeedbackStatus ELSE VALID_STATUS

\* how long a list of records handed to the filter is
MaxList == 3

ListIds == <<"id1", "id2", "id3", "id4", "id5">>

\* the record submitted as number i, with the status it has by now
ListRecord(i, status) ==
    LET input == CHOOSE input \in CreateInputs : input.feedbackText = <<"o","k">>
    IN  IF variant = "local"
        THEN UpdatedRecord(NewRecord(input, ListIds[i], i), status, i)
        ELSE DbUpdatedRow(DbCreatedRow(CreateData(CreateRequest(input)), ListIds[i], i),
                          status, i)

\* the lists the page may hold
RecordLists ==
    UNION { { [i \in 1..n |-> ListRecord(i, statuses[i])] :
                statuses \in [1..n -> StatusValues] } : n \in 0..MaxList }

\* the key of the "all" tab: StatusFilter "all", activeStatus "ALL"
ALL_FILTER == IF variant = "local" THEN "all" ELSE <<"A","L","L">>

\* the values of statusFilter, of activeStatus
StatusFilters == {ALL_FILTER} \cup StatusValues

\* faulty variant: the filtered list is sorted again
filteredRecordsSorted(list, statusFilter) ==
    IF statusFilter = ALL_FILTER THEN list
    ELSE SortByCreatedAtDesc(SelectSeq(list, LAMBDA record : record.status = statusFilter))

\* the useMemo of filteredRecords; the same expression over activeStatus
filteredRecords(list, statusFilter) ==
    IF statusFilter = ALL_FILTER THEN list
    ELSE SelectSeq(list, LAMBDA record : record.status = statusFilter)

\* a call before it returns; `clock` is the history of the times at which
\* it returned, `repeated` the result of the same call made once more
Invoke(fn, args) ==
    [ fn |-> fn, args |-> args, returned |-> FALSE, result |-> NULL,
      repeated |-> NULL, clock |-> <<>> ]

FilterInvocations ==
    { Invoke("filteredRecords", [list |-> list, statusFilter |-> statusFilter]) :
        list \in RecordLists, statusFilter \in StatusFilters }

filteredRecordsReturns ==
    /\ invocation.fn = "filteredRecords"
    /\ ~invocation.returned
    /\ invocation' =
            [ invocation EXCEPT
                !.returned = TRUE,
                !.result = filteredRecords(invocation.args.list,
                                           invocation.args.statusFilter),
                !.clock = <<now>> ]

\* the literals of buildLLMPayload, one entry per character; a character
\* outside ASCII is written as its code point
LineFeed == <<"\n">>

PAYLOAD_TITLE == <<"#", " ", "U+7528", "U+6237", "U+53CD", "U+9988">>

PAYLOAD_STATUS == <<"-", " ", "U+72B6", "U+6001", "U+FF1A">>

PAYLOAD_PAGE == <<"-", " ", "U+9875", "U+9762", "U+FF1A">>

PAYLOAD_ELEMENT == <<"-", " ", "U+5143", "U+7D20", "U+FF1A">>

PAYLOAD_SELECTOR == <<"-", " ", "U+9009", "U+62E9", "U+5668", "U+FF1A">>

PAYLOAD_COMPONENT == <<"-", " ", "U+7EC4", "U+4EF6", "U+FF1A">>

PAYLOAD_UNRECOGNIZED == <<"U+672A", "U+8BC6", "U+522B">>

PAYLOAD_FEEDBACK == <<"#", "#", " ", "U+53CD", "U+9988", "U+6B63", "U+6587">>

PAYLOAD_CONTEXT == <<"#", "#", " ", "U+5143", "U+7D20", "U+4E0A", "U+4E0B", "U+6587">>

\* STATUS_META[status].label of the local variant
STATUS_META(status) ==
    CASE status = "pending" -> [label |-> <<"U+672A", "U+5904", "U+7406">>]
      [] status = "in_progress" -> [label |-> <<"U+5904", "U+7406", "U+4E2D">>]
      [] status = "resolved" -> [label |-> <<"U+5DF2", "U+5904", "U+7406">>]
      [] status = "invalid" -> [label |-> <<"U+5DF2", "U+5931", "U+6548">>]

\* STATUS_TEXT[status] of the Remix variant
STATUS_TEXT(status) ==
    CASE status = PENDING -> <<"U+672A", "U+5904", "U+7406">>
      [] status = IN_PROGRESS -> <<"U+5904", "U+7406", "U+4E2D">>
      [] status = RESOLVED -> <<"U+5DF2", "U+5904", "U+7406">>
      [] status = INVALID -> <<"U+5931", "U+6548">>

\* the lines after the status line, the same array in both variants
PayloadLines(record) ==
    << PAYLOAD_PAGE \o record.pageUrl,
       PAYLOAD_ELEMENT \o record.elementLabel,
       PAYLOAD_SELECTOR \o record.selector,
       PAYLOAD_COMPONENT \o (IF record.componentName = NULL THEN PAYLOAD_UNRECOGNIZED
                             ELSE record.componentName),
       <<>>,
       PAYLOAD_FEEDBACK,
       trim(record.feedbackText),
       <<>>,
       PAYLOAD_CONTEXT,
       record.context >>

\* faulty variant: the export carries the time of the call
buildLLMPayloadStamped(record) ==
    join(<<PAYLOAD_TITLE, PAYLOAD_STATUS \o STATUS_META(record.status).label>>
            \o PayloadLines(record) \o << <<now>> >>,
         LineFeed)

\* buildLLMPayload of the local variant
buildLLMPayload(record) ==
    join(<<PAYLOAD_TITLE, PAYLOAD_STATUS \o STATUS_META(record.status).label>>
            \o PayloadLines(record),
         LineFeed)

\* buildLLMPayload of the Remix variant
RemixBuildLLMPayload(record) ==
    join(<<PAYLOAD_TITLE, PAYLOAD_STATUS \o STATUS_TEXT(record.status)>>
            \o PayloadLines(record),
         LineFeed)

\* the function handleCopyRecord calls in the variant that runs
Payload(record) ==
    IF variant = "local" THEN buildLLMPayload(record)
    ELSE RemixBuildLLMPayload(record)

\* the records handed to the export
PayloadRecords ==
    { [ ListRecord(1, status) EXCEPT !.componentName = texts[1],
                                      !.feedbackText = texts[2],
                                      !.context = texts[3] ] :
        status \in StatusValues,
        texts \in {NULL, <<"B">>}
                 \X {<<"o","k">>, <<" ","o","k","\n">>}
                 \X {<<"a","t"," ","p">>, <<"i","n"," ","B","\n","a","t"," ","p">>} }

PayloadInvocations ==
    { Invoke("buildLLMPayload", [record |-> record]) : record \in PayloadRecords }

\* handleCopyRecord builds the payload of a record
buildLLMPayloadReturns ==
    /\ invocation.fn = "buildLLMPayload"
    /\ ~invocation.returned
    /\ invocation' = [ invocation EXCEPT !.returned = TRUE,
                                          !.result = Payload(invocation.args.record),
                                          !.clock = <<now>> ]

\* handleCopyRecord builds the payload of the unchanged record once more
buildLLMPayloadRepeats ==
    /\ invocation.fn = "buildLLMPayload"
    /\ invocation.returned
    /\ invocation.repeated = NULL
    /\ invocation' = [ invocation EXCEPT !.repeated = Payload(invocation.args.record),
                                          !.clock = Append(@, now) ]

\* how many nodes the longest chain of ancestors has, the element included
MaxDepth == 6

NodeNames == <<"N1", "N2", "N3", "N4", "N5", "N6", "N7", "N8">>

\* the kinds of node a chain is made of: an HTML element with three
\* classes, one with an id, an SVG element, and a node that is no
\* HTMLElement and has no tagName
NodeKinds == {"div", "main", "svg", "bare"}

ChainNode(kind, parent) ==
    [ tagName |-> CASE kind = "div" -> <<"D","I","V">>
                    [] kind = "main" -> <<"M","A","I","N">>
                    [] kind = "svg" -> <<"s","v","g">>
                    [] kind = "bare" -> NULL,
      isHTMLElement |-> kind \in {"div", "main"},
      id |-> IF kind = "main" THEN <<"k">> ELSE <<>>,
      classList |-> IF kind = "div" THEN << <<"a">>, <<"b">>, <<"c">> >> ELSE <<>>,
      parentElement |-> parent,
      textContent |-> <<>>,
      outerHTML |-> <<>> ]

\* the document in which N1 is of kinds[1], its parent N2 of kinds[2], and
\* so on up to the root
ChainDom(kinds) ==
    [ name \in {NodeNames[i] : i \in DOMAIN kinds} |->
        LET i == CHOOSE i \in DOMAIN kinds : NodeNames[i] = name
        IN  ChainNode(kinds[i], IF i = Len(kinds) THEN NoElement ELSE NodeNames[i + 1]) ]

SelectorInvocations ==
    { Invoke("buildSelector", [kinds |-> kinds, dom |-> ChainDom(kinds), element |-> "N1"]) :
        kinds \in UNION { [1..n -> NodeKinds] : n \in 1..MaxDepth } }

\* createElementSnapshot builds the selector of the element
buildSelectorReturns ==
    /\ invocation.fn = "buildSelector"
    /\ ~invocation.returned
    /\ invocation' =
            [ invocation EXCEPT
                !.returned = TRUE,
                !.result = IF variant = "local"
                           THEN buildSelector(invocation.args.dom, invocation.args.element)
                           ELSE RemixBuildSelector(invocation.args.dom,
                                                   invocation.args.element),
                !.clock = <<now>> ]

\* how many frames a context handed to extractComponentName has
MaxFrames == 3

\* the frames a context is made of
FRAME_BUTTON == <<"i","n"," ","B","u","t","t","o","n">>

FRAME_ANONYMOUS == <<"i","n"," ">> \o Anonymous

FRAME_SERVER_LOWER == <<"i","n"," ","s","e","r","v","e","r">>

FRAME_SERVER == <<"i","n"," ","S","e","r","v","e","r">>

FRAME_AT == <<"a","t"," ","p">>

Frames == {FRAME_BUTTON, FRAME_ANONYMOUS, FRAME_SERVER_LOWER, FRAME_SERVER, FRAME_AT}

\* what formatElementInfo may resolve with: frames, one per line
FrameContexts ==
    { join(frames, <<"\n"," ">>) :
        frames \in UNION { [1..n -> Frames] : n \in 1..MaxFrames } }

ExtractInvocations ==
    { Invoke("extractComponentName", [context |-> context]) : context \in FrameContexts }

\* the .then callback extracts the component name of the resolved context
extractComponentNameReturns ==
    /\ invocation.fn = "extractComponentName"
    /\ ~invocation.returned
    /\ invocation' =
            [ invocation EXCEPT
                !.returned = TRUE,
                !.result = extractComponentName(invocation.args.context),
                !.clock = <<now>> ]

\* the calls looked at, before they return
Invocations ==
    FilterInvocations \cup PayloadInvocations \cup SelectorInvocations
        \cup ExtractInvocations

InitFunctions ==
    /\ InitDraft
    /\ variant \in {"local", "remix"}
    /\ InitStore
    /\ InitPage
    /\ invocation \in Invocations

FunctionsIdle ==
    UNCHANGED <<draftVars, historyVars, storeVars, opCount, appVars, submitLog, statusVars,
                serviceCalls>>

NextFunctions ==
    \/ filteredRecordsReturns /\ FunctionsIdle
    \/ buildLLMPayloadReturns /\ FunctionsIdle
    \/ buildLLMPayloadRepeats /\ FunctionsIdle
    \/ invocation.fn = "buildLLMPayload" /\ Tick /\ Counted /\ DraftIdle
    \/ buildSelectorReturns /\ FunctionsIdle
    \/ extractComponentNameReturns /\ FunctionsIdle

SpecFunctions == InitFunctions /\ [][NextFunctions]_vars

(***************************************************************************)
(* Properties of the draft controller                                      *)
(***************************************************************************)
Settled(token) == \E e \in settledLog : e.token = token

Entry(token) == CHOOSE e \in settledLog : e.token = token

ResolvedOk(token) == Settled(token) /\ Entry(token).outcome = "resolved"

WasApplied(token) == Settled(token) /\ Entry(token).applied

\* C1: element A is selected, then element B, and both describe calls
\* resolve successfully, in either order, with the draft not reset after B
\* was selected: the draft's context is B's resolved text and its
\* componentName is the name extracted from B's resolved text.
DraftRaceLatestWins ==
    \A b \in 2..contextToken :
        ( /\ b = contextToken
          /\ ResolvedOk(b - 1) /\ ResolvedOk(b)
          /\ ~resetSince )
        => /\ draft # NoDraft
           /\ draft.context = Entry(b).text
           /\ draft.componentName = extractComponentName(Entry(b).text)

\* C1 witness: two selections, B's call resolved first and A's call after
\* it, with texts that name different components; the draft shows B's.
DraftRaceWitness ==
    /\ contextToken = 2 /\ ~resetSince
    /\ ResolvedOk(1) /\ ResolvedOk(2)
    /\ Entry(1).afterNewer
    /\ Entry(1).text # Entry(2).text
    /\ extractComponentName(Entry(1).text) # extractComponentName(Entry(2).text)
    /\ draft # NoDraft /\ draft.context = Entry(2).text

\* C2: a describe call whose captured token is not the current token
\* settles (resolved or rejected): the draft is left exactly as it was.
StaleCompletionLeavesDraft ==
    [][ (\E call \in describeCalls :
            /\ call.token # contextToken
            /\ describeCalls' = describeCalls \ {call})
        => draft' = draft ]_vars

\* C2 witness: a call settled after a call issued later than it had already
\* settled, so it was stale when it settled, and a draft is present.
StaleCompletionWitness ==
    /\ draft # NoDraft
    /\ \E e \in settledLog : e.afterNewer /\ ~e.applied

\* C3 as stated: of two calls that were pending together at most one is
\* applied, and, in a run where calls were pending together, once all calls
\* have settled the snapshot fields, the context and the componentName of
\* the draft all stem from the latest selection (an absent componentName
\* counts as stemming from it).
DraftNeverMixesSelections ==
    /\ \A pair \in overlaps : ~(WasApplied(pair[1]) /\ WasApplied(pair[2]))
    /\ (overlaps # {} /\ describeCalls = {} /\ draft # NoDraft)
        => /\ origin.snapshot = contextToken
           /\ origin.context = contextToken
           /\ draft.componentName # NULL => origin.componentName = contextToken

\* C3 amended: of two calls that were pending together at most one is
\* applied; once all calls have settled the snapshot fields and the context
\* stem from the latest selection, and so does the componentName when the
\* latest call resolved; when it was rejected the componentName is the one
\* carried over from the previous draft.
DraftConvergesToLatest ==
    /\ \A pair \in overlaps : ~(WasApplied(pair[1]) /\ WasApplied(pair[2]))
    /\ (describeCalls = {} /\ draft # NoDraft)
        => /\ origin.snapshot = contextToken
           /\ origin.context = contextToken
           /\ ResolvedOk(contextToken)
                => /\ origin.componentName = contextToken
                   /\ draft.context = Entry(contextToken).text
                   /\ draft.componentName =
                        extractComponentName(Entry(contextToken).text)
           /\ ~ResolvedOk(contextToken)
                => /\ draft.context = draft.htmlPreview
                   /\ (origin.componentName # contextToken \/ draft.componentName = NULL)

\* C3 witness: all calls have settled, two of them were pending together,
\* the latest was rejected and the draft still shows a carried-over name.
DraftConvergesWitness ==
    /\ describeCalls = {} /\ draft # NoDraft
    /\ overlaps # {}
    /\ Entry(contextToken).outcome = "rejected"
    /\ draft.componentName # NULL

\* C4: on a selection the new draft's feedbackText is the previous draft's
\* when there was a previous draft with the same selector, and empty in
\* every other case.
SelectionPreservesFeedbackText ==
    [][ contextToken' # contextToken
        => draft'.feedbackText =
              IF draft # NoDraft /\ draft.selector = draft'.selector
              THEN draft.feedbackText
              ELSE <<>> ]_vars

\* C4 witness: a non-empty text carried across a re-selection of the same
\* selector.
SelectionPreservesWitness ==
    /\ draft # NoDraft
    /\ origin.feedbackText = "carried"
    /\ draft.feedbackText # <<>>

(***************************************************************************)
(* Properties of the feedback store                                        *)
(***************************************************************************)
\* the records of the store of the variant
Store == IF variant = "local" THEN storage ELSE db

\* the fields a stored record has beside those of the input
GeneratedFields == {"id", "status", "createdAt", "updatedAt"}

\* the create requests that carry the fields of a FeedbackCreateInput
CreateRequests == {CreateRequest(input) : input \in CreateInputs}

\* the update-status requests with an id and one of the four statuses
StatusRequests ==
    {form \in ActionRequests :
        /\ form.intent = "update-status"
        /\ form.id # NoId /\ form.id # ""
        /\ form.status # Absent /\ toUpperCase(form.status) \in VALID_STATUS}

\* a required field of the request is missing, or blank once trimmed
HasBlankRequired(form) ==
    \E i \in DOMAIN requiredFields :
        \/ form[requiredFields[i]] = Absent
        \/ trim(form[requiredFields[i]]) = <<>>

\* the componentName of a request, the empty string read as null
NameOrNull(form) ==
    IF form.componentName = Absent \/ form.componentName = <<>>
    THEN NULL ELSE form.componentName

\* `after` is `before` with `record` added and nothing else changed
AddsOnly(before, after, record) ==
    /\ Len(after) = Len(before) + 1
    /\ \E i \in DOMAIN after :
          /\ after[i] = record
          /\ before = [j \in 1..Len(before) |-> IF j < i THEN after[j] ELSE after[j + 1]]

\* what create of the local adapter promises for `input`
LocalCreateContract(input) ==
    LET record == lastOp'.result.record
    IN  /\ lastOp'.result.kind = "record"
        /\ record.status = "pending"
        /\ record.createdAt = record.updatedAt
        /\ record.id \notin Ids(storage)
        /\ DOMAIN record = DOMAIN input \cup GeneratedFields
        /\ \A field \in DOMAIN input : record[field] = input[field]
        /\ AddsOnly(storage, storage', record)

\* C5 as stated: every create returns and persists a record with status
\* pending, equal createdAt and updatedAt and an id no stored record has,
\* whose other fields equal the fields of the input; in the Remix action
\* that is every field the table stores.
CreateKeepsInputFields ==
    [][ /\ \A input \in CreateInputs :
              ServiceCreate(input) => LocalCreateContract(input)
        /\ \A form \in CreateRequests :
              action(form) =>
                LET record == lastOp'.result.record
                IN  /\ lastOp'.result.kind = "record"
                    /\ record.status = PENDING
                    /\ record.createdAt = record.updatedAt
                    /\ record.id \notin Ids(db)
                    /\ \A i \in DOMAIN requiredFields :
                          record[requiredFields[i]] = form[requiredFields[i]]
                    /\ record.componentName = NameOrNull(form)
                    /\ AddsOnly(db, db', record) ]_vars

\* C5 amended: the local adapter does so for every input.  The Remix action
\* rejects a create in which a required field is missing or blank once
\* trimmed, with status 400 and nothing stored; every other create returns
\* and persists a record with status PENDING, equal createdAt and updatedAt
\* and an id no stored record has, whose six required fields are the
\* trimmed fields of the input and whose componentName is the input's, an
\* empty one stored as null.
CreateReturnsPendingRecord ==
    [][ /\ \A input \in CreateInputs :
              ServiceCreate(input) => LocalCreateContract(input)
        /\ \A form \in CreateRequests :
              action(form) =>
                IF HasBlankRequired(form)
                THEN /\ lastOp'.result.kind = "badRequest"
                     /\ lastOp'.result.httpStatus = 400
                     /\ db' = db
                ELSE LET record == lastOp'.result.record
                     IN  /\ lastOp'.result.kind = "record"
                         /\ record.status = PENDING
                         /\ record.createdAt = record.updatedAt
                         /\ record.id \notin Ids(db)
                         /\ \A i \in DOMAIN requiredFields :
                               record[requiredFields[i]] =
                                    trim(form[requiredFields[i]])
                         /\ record.componentName = NameOrNull(form)
                         /\ AddsOnly(db, db', record) ]_vars

\* C5 witness: the Remix action has stored a second record, for an input
\* with white space around its feedbackText and its context.
CreateReturnsWitness ==
    /\ variant = "remix"
    /\ lastOp.op = "create" /\ lastOp.result.kind = "record"
    /\ Len(db) = 2
    /\ lastOp.form.feedbackText # trim(lastOp.form.feedbackText)
    /\ lastOp.form.context # trim(lastOp.form.context)
    /\ db[2] = lastOp.result.record

\* C6: in the local adapter and in the Remix action, updateStatus with an
\* id no stored record has returns the not-found result and leaves the
\* store as it was.
UpdateStatusMissingIdNotFound ==
    [][ /\ \A id \in RequestIds : \A status \in FeedbackStatus :
              (ServiceUpdateStatus(id, status) /\ id \notin Ids(storage))
                => /\ lastOp'.result.kind = "notFound"
                   /\ storage' = storage
        /\ \A form \in StatusRequests :
              (action(form) /\ form.id \notin Ids(db))
                => /\ lastOp'.result.kind = "notFound"
                   /\ db' = db ]_vars

\* C6 failing run: the Remix action was asked to update the status of an id
\* the table does not hold, with a valid status, while the table holds a
\* record: db.feedback.update threw and no result was returned.
UpdateStatusMissingIdThrows ==
    /\ variant = "remix"
    /\ lastOp.op = "updateStatus"
    /\ lastOp.result.kind = "throw"
    /\ lastOp.form.id \notin Ids(db)
    /\ Len(db) = 1

\* C7 as stated: with one create(X) on the empty store and no other write,
\* list returns exactly the record create returned, and its fields are
\* those of X.
ListAfterCreateKeepsInput ==
    ( /\ lastOp.op = "list" /\ lastOp.filter = <<"A","L","L">>
      /\ firstCreate # NoRecord /\ firstCreate # Voided )
    => /\ lastOp.result.list = <<firstCreate.record>>
       /\ firstCreate.record.status = IF variant = "local" THEN "pending" ELSE PENDING
       /\ variant = "local"
            => \A field \in DOMAIN firstCreate.input :
                    firstCreate.record[field] = firstCreate.input[field]
       /\ variant = "remix"
            => /\ \A i \in DOMAIN requiredFields :
                     firstCreate.record[requiredFields[i]] =
                        firstCreate.form[requiredFields[i]]
               /\ firstCreate.record.componentName = NameOrNull(firstCreate.form)

\* C7 amended: with one accepted create(X) on the empty store and no other
\* write, list returns exactly the record create returned, with status
\* pending; in the local adapter its fields are those of X, in the Remix
\* variant its six required fields are those of X trimmed and its
\* componentName is that of X, an empty one stored as null.
ListAfterCreateRoundTrip ==
    ( /\ lastOp.op = "list" /\ lastOp.filter = <<"A","L","L">>
      /\ firstCreate # NoRecord /\ firstCreate # Voided )
    => /\ lastOp.result.list = <<firstCreate.record>>
       /\ firstCreate.record.createdAt = firstCreate.record.updatedAt
       /\ variant = "local"
            => /\ firstCreate.record.status = "pending"
               /\ DOMAIN firstCreate.record =
                        DOMAIN firstCreate.input \cup GeneratedFields
               /\ \A field \in DOMAIN firstCreate.input :
                     firstCreate.record[field] = firstCreate.input[field]
       /\ variant = "remix"
            => /\ firstCreate.record.status = PENDING
               /\ \A i \in DOMAIN requiredFields :
                     firstCreate.record[requiredFields[i]] =
                        trim(firstCreate.form[requiredFields[i]])
               /\ firstCreate.record.componentName = NameOrNull(firstCreate.form)

\* C7 witness: the loader has listed the one record of the table, created
\* from an input with white space around its feedbackText.
ListAfterCreateWitness ==
    /\ variant = "remix"
    /\ lastOp.op = "list" /\ lastOp.filter = <<"A","L","L">>
    /\ firstCreate # NoRecord /\ firstCreate # Voided
    /\ firstCreate.form.feedbackText # trim(firstCreate.form.feedbackText)
    /\ Len(lastOp.result.list) = 1

\* `list` holds every record of `records` exactly once
IsPermutation(list, stored) ==
    /\ Len(list) = Len(stored)
    /\ \A i \in DOMAIN stored :
          Cardinality({j \in DOMAIN list : list[j] = stored[i]}) = 1

IsCreatedAtDescending(list) ==
    \A i \in 1..(Len(list) - 1) : list[i].createdAt >= list[i + 1].createdAt

\* C8: after any creates and status updates, list without a status filter
\* returns every stored record exactly once, by createdAt descending.
ListReturnsAllNewestFirst ==
    (lastOp.op = "list" /\ lastOp.filter = <<"A","L","L">>)
    => /\ IsPermutation(lastOp.result.list, Store)
       /\ IsCreatedAtDescending(lastOp.result.list)

\* C8 witness: the local adapter has listed two records that storage holds
\* in another order than by createdAt descending.
ListReturnsAllWitness ==
    /\ variant = "local"
    /\ lastOp.op = "list"
    /\ Len(storage) = 2
    /\ ~IsCreatedAtDescending(storage)
    /\ Len(lastOp.result.list) = 2

\* C9: as long as the clock was never set back, every stored record has
\* updatedAt >= createdAt and one of the four statuses.
RecordsWellFormed ==
    ~clockSetBack
    => \A i \in DOMAIN Store :
          /\ Store[i].updatedAt >= Store[i].createdAt
          /\ Store[i].status \in StatusValues

\* C9 witness: the clock only moved forward and a record got its status
\* updated after its creation.
RecordsWellFormedWitness ==
    /\ ~clockSetBack
    /\ \E i \in DOMAIN Store :
          /\ Store[i].updatedAt > Store[i].createdAt
          /\ Store[i].status = IF variant = "local" THEN "resolved" ELSE RESOLVED

(***************************************************************************)
(* Properties of the page                                                  *)
(***************************************************************************)
\* C10: submitting a draft whose feedbackText is empty or white space only
\* starts no create (no promise, no fetcher request, no store operation),
\* leaves the store, the record list and the draft as they were, and shows
\* a message: the toast in the local variant, the error message in the
\* Remix variant.
BlankSubmitRejected ==
    [][ /\ (handleSubmitDraft /\ trim(draft.feedbackText) = <<>>)
            => /\ toast' = TOAST_ENTER_TEXT
               /\ pendingCreate' = NoCall /\ ~isSubmitting'
               /\ storage' = storage /\ lastOp' = lastOp
               /\ records' = records /\ draft' = draft
        /\ (RemixHandleSubmitDraft /\ trim(draft.feedbackText) = <<>>)
            => /\ errorMessage' = ERROR_FILL_TEXT
               /\ createFetcher' = createFetcher /\ createFetcher.state = "idle"
               /\ db' = db /\ lastOp' = lastOp
               /\ records' = records /\ draft' = draft ]_vars

\* C10 witness: a draft whose text is one blank was submitted after a
\* record had been stored; the message is shown and nothing is in flight.
BlankSubmitWitness ==
    /\ variant = "local"
    /\ draft # NoDraft /\ draft.feedbackText = <<" ">>
    /\ toast = TOAST_ENTER_TEXT
    /\ pendingCreate = NoCall /\ ~isSubmitting
    /\ Len(storage) = 1 /\ records = storage

\* the fields a draft and a record have from the element snapshot
SnapshotFields ==
    {"elementLabel", "selector", "tagName", "textPreview", "pageUrl", "htmlPreview"}

\* the record stored under `id`
RecordOf(id) == Store[FindIndex(Store, id)]

\* at most one create is in flight, and every submission that stored a
\* record stored exactly one, which is still there
OneRecordPerSubmission ==
    /\ submitLog.inFlight <= 1
    /\ Len(Store) = Cardinality(submitLog.stored)
    /\ \A e \in submitLog.stored :
          Cardinality({i \in DOMAIN Store : Store[i].id = e.id}) = 1

OnlyTextCleared(before, after) ==
    /\ after # NoDraft
    /\ DOMAIN after = DOMAIN before
    /\ after.feedbackText = <<>>
    /\ \A field \in DOMAIN before \ {"feedbackText"} : after[field] = before[field]

CreateFailedWitness ==
    /\ draft # NoDraft /\ ~IsBlank(draft.feedbackText)
    /\ submitLog.inFlight = 0 /\ submitLog.stored = {}
    /\ \/ toast = TOAST_SUBMIT_FAILED
       \/ variant = "remix" /\ errorMessage = "context"

\* C13: after a reset the draft is absent, and it stays absent until the next
\* selection: a describe call that was in flight at the reset and settles
\* later, resolved or rejected, installs no draft and writes none
ResetKeepsDraftAbsent ==
    [][ /\ resetSince' /\ ~resetSince => draft' = NoDraft
        /\ draft = NoDraft /\ contextToken' = contextToken => draft' = NoDraft
      ]_vars

\* a call of the latest selection settled after the reset and found no draft
ResetKeepsDraftAbsentWitness ==
    /\ resetSince
    /\ draft = NoDraft
    /\ \E e \in settledLog : e.token = contextToken /\ ~e.applied

(***************************************************************************)
(* Properties of the status control                                        *)
(***************************************************************************)
\* the status updates of a record that are in flight
UpdatesInFlight(id) == {update \in pendingUpdates : update.id = id}

\* C14: in both variants, while a status update of a record is outstanding
\* the status control of that record is disabled, and no two status updates
\* of one record are in flight at the same time, also when the status of
\* another record is changed in the meantime
StatusControlSerializesUpdates ==
    \A id \in RequestIds :
        /\ UpdatesInFlight(id) # {} => IsUpdating(id)
        /\ Cardinality(UpdatesInFlight(id)) <= 1

\* the local variant keeps it: updatingRecordIds holds every id with a
\* promise not yet settled
LocalStatusControlSerializesUpdates ==
    variant = "local" => StatusControlSerializesUpdates

\* local variant: updates of both records are in flight together
LocalUpdatesOfTwoRecords ==
    /\ variant = "local"
    /\ \A id \in RequestIds : UpdatesInFlight(id) # {}

\* Remix variant: two update-status requests for one record are in flight
OverlappingUpdatesWitness ==
    /\ variant = "remix"
    /\ \E id \in RequestIds : Cardinality(UpdatesInFlight(id)) = 2

\* Remix variant: every request was handled and the page is idle, yet the
\* record shows another status than the one the latest change stored,
\* because an earlier request for the record was handled after it
StaleUpdateWinsWitness ==
    /\ variant = "remix"
    /\ updateFetcher.state = "idle"
    /\ pendingUpdates = {}
    /\ updateFetcher.data # NoCall
    /\ updateFetcher.data.kind = "record"
    /\ ShownRecord(updateFetcher.data.record.id).status
            # updateFetcher.data.record.status

\* a control is disabled only while the call it waits for has not settled:
\* the submit button while the create is pending, the status control of a
\* record while an update of the record is
ControlsReleasedWhenSettled ==
    /\ isSubmitting => pendingCreate # NoCall
    /\ \A id \in RequestIds :
            IsUpdating(id) =>
                IF variant = "local" THEN UpdatesInFlight(id) # {}
                ELSE updateFetcher.state = "loading" \/ AwaitedUpdates # {}

\* C15: every failure path leaves the page usable: whether the store call of
\* a submission or of a status update succeeds, reports not-found or fails,
\* once it has settled the submitting flag is false and the record's id is
\* not in the updating set, and the page with its controls is still there
FailurePathsLeaveUiUsable ==
    /\ ControlsReleasedWhenSettled
    /\ ~routeError

\* Remix variant: db.feedback.update rejected and the error boundary has
\* replaced the page
UpdateThrewWitness ==
    /\ variant = "remix"
    /\ routeError
    /\ lastOp.op = "updateStatus" /\ lastOp.result.kind = "throw"

\* local variant: an update that failed or found no record, or a create that
\* failed, has settled and every control is enabled
LocalFailuresSettledWitness ==
    /\ variant = "local"
    /\ toast \in {TOAST_STATUS_FAILED, TOAST_NOT_FOUND, TOAST_SUBMIT_FAILED}
    /\ ~isSubmitting
    /\ updatingRecordIds = {}

(***************************************************************************)
(* Properties of the functions of the page                                 *)
(***************************************************************************)
Returned(fn) == invocation.fn = fn /\ invocation.returned

\* the positions of a list whose record has the status
MatchingPositions(list, status) == {i \in DOMAIN list : list[i].status = status}

\* C16: for any list of records the filter "all" yields the list unchanged,
\* and a filter on a status yields exactly the records with that status, in
\* the relative order they have in the list
FilterYieldsMatchingInOrder ==
    Returned("filteredRecords") =>
        LET list == invocation.args.list
            statusFilter == invocation.args.statusFilter
            result == invocation.result
        IN  IF statusFilter = ALL_FILTER THEN result = list
            ELSE /\ Len(result) = Cardinality(MatchingPositions(list, statusFilter))
                 /\ \A i \in DOMAIN result :
                        \E k \in MatchingPositions(list, statusFilter) :
                            /\ result[i] = list[k]
                            /\ \A j \in DOMAIN result : \A l \in DOMAIN list :
                                    j < i /\ result[j] = list[l] => l < k

\* a filter on a status kept two records of three and dropped the middle or
\* an outer one; the "all" filter is reached as well by FilterAllWitness
FilterYieldsMatchingWitness ==
    /\ Returned("filteredRecords")
    /\ invocation.args.statusFilter # ALL_FILTER
    /\ Len(invocation.args.list) = 3
    /\ Len(invocation.result) = 2

FilterAllWitness ==
    /\ Returned("filteredRecords")
    /\ invocation.args.statusFilter = ALL_FILTER
    /\ Len(invocation.args.list) = 3

\* a record that differs from the given one in the fields the export does
\* not name
Twin(record) ==
    [record EXCEPT !.id = "id2", !.htmlPreview = <<"<","i","/",">">>,
                   !.createdAt = @ + 1, !.updatedAt = @ + 2]

PayloadDependsOnRecordOnly ==
    Returned("buildLLMPayload") =>
        /\ invocation.repeated # NULL => invocation.repeated = invocation.result
        /\ Payload(Twin(invocation.args.record)) = invocation.result

\* C17: the export is a pure function of the record's status, pageUrl,
\* elementLabel, selector, componentName, feedbackText and context: the call
\* changes no state, a record equal in these fields gives the same text, and
\* a second call on the unchanged record returns the same text whatever
\* else changed in between
PayloadExportIsPure ==
    [][ /\ invocation.fn = "buildLLMPayload" /\ invocation' # invocation =>
                UNCHANGED <<draftVars, historyVars, storeVars, opCount, appVars,
                            submitLog, statusVars>>
        /\ PayloadDependsOnRecordOnly'
      ]_vars

\* the payload was built twice, at different times
PayloadExportWitness ==
    /\ Returned("buildLLMPayload")
    /\ invocation.repeated # NULL
    /\ invocation.clock[1] # invocation.clock[2]
    /\ invocation.args.record.componentName = NULL

\* the status of the other variant that stands for the same state of a
\* feedback
CorrespondingStatus(status) ==
    IF variant = "local"
    THEN CASE status = "pending" -> PENDING
           [] status = "in_progress" -> IN_PROGRESS
           [] status = "resolved" -> RESOLVED
           [] status = "invalid" -> INVALID
    ELSE CASE status = PENDING -> "pending"
           [] status = IN_PROGRESS -> "in_progress"
           [] status = RESOLVED -> "resolved"
           [] status = INVALID -> "invalid"

\* the export of the other variant for the record with the same fields and
\* the corresponding status
OtherVariantPayload(record) ==
    LET other == [record EXCEPT !.status = CorrespondingStatus(record.status)]
    IN  IF variant = "local" THEN RemixBuildLLMPayload(other)
        ELSE buildLLMPayload(other)

\* C18: for records with equal fields and corresponding status, whichever of
\* the four it is, buildLLMPayload of the local variant and buildLLMPayload
\* of the Remix variant return the same text, character for character
PayloadsAgreeAcrossVariants ==
    Returned("buildLLMPayload") =>
        invocation.result = OtherVariantPayload(invocation.args.record)

\* what does hold: the two exports agree for every status but "invalid"
PayloadsAgreeUnlessInvalid ==
    Returned("buildLLMPayload")
        /\ invocation.args.record.status # (IF variant = "local" THEN "invalid" ELSE INVALID)
        => invocation.result = OtherVariantPayload(invocation.args.record)

\* the export of a record with status "invalid" was built and the other
\* variant's export for it is another text
PayloadsDifferWitness ==
    /\ Returned("buildLLMPayload")
    /\ invocation.args.record.status = (IF variant = "local" THEN "invalid" ELSE INVALID)
    /\ invocation.result # OtherVariantPayload(invocation.args.record)

\* the index at which sep starts first in s, or 0
FirstIndexOf(s, sep) ==
    LET starts == {i \in 1..(Len(s) - Len(sep) + 1) :
                        SubSeq(s, i, i + Len(sep) - 1) = sep}
    IN  IF starts = {} THEN 0 ELSE CHOOSE i \in starts : \A j \in starts : i <= j

\* s.split(sep)
RECURSIVE SplitBy(_, _)
SplitBy(s, sep) ==
    LET at == FirstIndexOf(s, sep)
    IN  IF at = 0 THEN <<s>>
        ELSE <<SubSeq(s, 1, at - 1)>> \o SplitBy(SubSeq(s, at + Len(sep), Len(s)), sep)

IsPrefix(prefix, s) == Len(prefix) <= Len(s) /\ SubSeq(s, 1, Len(prefix)) = prefix

\* the tag buildSelector writes for a kind of node
KindTag(kind) ==
    CASE kind = "div" -> <<"d","i","v">>
      [] kind = "main" -> <<"m","a","i","n">>
      [] kind = "svg" -> <<"s","v","g">>
      [] kind = "bare" -> IF variant = "local" THEN <<>>
                          ELSE <<"e","l","e","m","e","n","t">>

\* C19: for any element in any chain of ancestors buildSelector visits at
\* most 5 nodes, the element and up to 4 ancestors: the result has at most
\* 5 tokens joined by " > ", one per visited node from the outermost
\* visited ancestor down to the element, and it is not empty when the
\* element has a tag name
SelectorVisitsAtMostFive ==
    Returned("buildSelector") =>
        LET kinds == invocation.args.kinds
            tokens == SplitBy(invocation.result, <<" ",">"," ">>)
            count == Len(tokens)
        IN  /\ count <= 5
            /\ count <= Len(kinds)
            /\ \A i \in 1..count : IsPrefix(KindTag(kinds[i]), tokens[count + 1 - i])
            /\ kinds[1] # "bare" => invocation.result # <<>>

\* a chain of more than five nodes without an id was cut at the fifth
SelectorVisitsWitness ==
    /\ Returned("buildSelector")
    /\ Len(invocation.args.kinds) > 5
    /\ \A i \in 1..5 : invocation.args.kinds[i] \in {"div", "svg"}
    /\ invocation.args.kinds[1] # invocation.args.kinds[5]
    /\ Len(SplitBy(invocation.result, <<" ",">"," ">>)) = 5

Contains(s, part) == FirstIndexOf(s, part) # 0

NamesAnonymousOrServer(context) ==
    \/ Contains(context, FRAME_ANONYMOUS)
    \/ Contains(context, FRAME_SERVER_LOWER)
    \/ Contains(context, FRAME_SERVER)

\* C20: extractComponentName returns "Button" for an input of the form
\* "... in Button ...", absent for every input that contains
\* "in <anonymous>", and absent for every input that contains "in server"
\* or "in Server"
ExtractComponentNameByContent ==
    Returned("extractComponentName") =>
        LET context == invocation.args.context
            result == invocation.result
        IN  /\ Contains(context, FRAME_BUTTON) /\ ~NamesAnonymousOrServer(context)
                    => result = <<"B","u","t","t","o","n">>
            /\ Contains(context, FRAME_ANONYMOUS) => result = NULL
            /\ Contains(context, FRAME_SERVER_LOWER) \/ Contains(context, FRAME_SERVER)
                    => result = NULL

\* what does hold: the result is decided by the first frame whose name
\* starts with a capital letter; it is that name, or absent when the name
\* is "Server" or when there is no such frame
ExtractReadsFirstCapitalisedFrame ==
    Returned("extractComponentName") =>
        LET context == invocation.args.context
            button == FirstIndexOf(context, FRAME_BUTTON)
            server == FirstIndexOf(context, FRAME_SERVER)
        IN  invocation.result =
                IF button # 0 /\ (server = 0 \/ button < server)
                THEN <<"B","u","t","t","o","n">>
                ELSE NULL

\* a context with the frame "in <anonymous>" followed by "in Button" gave
\* "Button"
ExtractSkipsAnonymousWitness ==
    /\ Returned("extractComponentName")
    /\ Contains(invocation.args.context, FRAME_ANONYMOUS)
    /\ invocation.result = <<"B","u","t","t","o","n">>


(***************************************************************************)
(* Properties of the steps of the draft controller                         *)
(***************************************************************************)
\* the entry a step adds to the history of settled describe calls
JustSettled == settledLog' \ settledLog

\* C21: a describe call resolves while its token is the current one and a
\* draft is present: the context becomes the resolved text, the componentName
\* what extractComponentName reads in it (absent when it reads nothing),
\* isContextPending false, and every other field of the draft stays
DescribeResolvedMerges ==
    [][ \A e \in JustSettled :
            (e.outcome = "resolved" /\ e.token = contextToken /\ draft # NoDraft)
            => draft' = [draft EXCEPT !.context = e.text,
                                      !.componentName = extractComponentName(e.text),
                                      !.isContextPending = FALSE] ]_vars

\* C21 witness: the call of the second selection resolved with a text that
\* names no component, after the call of the first had written a name: the
\* draft shows the text and no name
DescribeResolvedMergesWitness ==
    /\ contextToken = 2 /\ draft # NoDraft
    /\ ResolvedOk(1) /\ Entry(1).applied
    /\ extractComponentName(Entry(1).text) # NULL
    /\ ResolvedOk(2) /\ Entry(2).applied
    /\ extractComponentName(Entry(2).text) = NULL
    /\ draft.context = Entry(2).text
    /\ draft.componentName = NULL
    /\ ~draft.isContextPending

\* C22: a describe call is rejected while its token is the current one and a
\* draft is present: the context was and stays the htmlPreview placeholder,
\* only isContextPending changes, to false, and neither the toast nor the
\* error message changes
DescribeRejectedClearsPendingOnly ==
    [][ \A e \in JustSettled :
            (e.outcome = "rejected" /\ e.token = contextToken /\ draft # NoDraft)
            => /\ draft.context = draft.htmlPreview
               /\ draft' = [draft EXCEPT !.isContextPending = FALSE]
               /\ toast' = toast
               /\ errorMessage' = errorMessage ]_vars

\* C22 witness: the call of the latest selection was rejected and wrote the
\* draft, which keeps the placeholder, a name carried over and a typed text
DescribeRejectedWitness ==
    /\ draft # NoDraft
    /\ Settled(contextToken)
    /\ Entry(contextToken).outcome = "rejected" /\ Entry(contextToken).applied
    /\ ~draft.isContextPending
    /\ draft.context = draft.htmlPreview
    /\ draft.componentName # NULL
    /\ draft.feedbackText # <<>>
    /\ toast = NoMessage /\ errorMessage = NoMessage

\* C23: a selection adds exactly one to the token, issues exactly one
\* describe call, which holds the new token, and installs a draft with the
\* fields of the new snapshot, the htmlPreview as context, isContextPending
\* true and the componentName of the previous draft (absent without one),
\* whatever the selector of the previous draft
SelectionInstallsPendingDraft ==
    [][ contextToken' # contextToken
        => /\ contextToken' = contextToken + 1
           /\ \E call \in describeCalls' :
                /\ describeCalls' \ describeCalls = {call}
                /\ call.token = contextToken'
                /\ draft' # NoDraft
                /\ \A field \in DOMAIN call.snapshot :
                        draft'[field] = call.snapshot[field]
                /\ draft'.context = call.snapshot.htmlPreview
                /\ draft'.isContextPending
                /\ draft'.componentName =
                        IF draft = NoDraft THEN NULL ELSE draft.componentName ]_vars

\* C23 witness: a selection of another selector has just installed a draft
\* that carries the name the previous draft had
SelectionInstallsWitness ==
    /\ draft # NoDraft
    /\ draft.isContextPending
    /\ \E call \in describeCalls : call.token = contextToken
    /\ origin.feedbackText = "cleared"
    /\ origin.componentName < contextToken
    /\ draft.componentName # NULL
    /\ draft.context = draft.htmlPreview

(***************************************************************************)
(* Properties of the status update of the store                            *)
(***************************************************************************)
\* the step is one call of updateStatus, or one update-status request handled
\* by the action, for an id that the store holds and, in the Remix variant,
\* with a status the action takes for valid
UpdatesExistingId ==
    /\ opCount' # opCount /\ now' = now
    /\ lastOp'.op = "updateStatus"
    /\ IF variant = "local"
       THEN lastOp'.id \in Ids(storage)
       ELSE /\ lastOp'.form.id \in Ids(db)
            /\ ~BadStatusRequest(lastOp'.form)

\* the record the store holds after an update of `record` to the status asked for
StatusWritten(record) ==
    IF variant = "local"
    THEN [record EXCEPT !.status = lastOp'.status, !.updatedAt = now]
    ELSE [record EXCEPT !.status = RequestedStatus(lastOp'.form), !.updatedAt = now]

\* the id the latest status update asked for
UpdatedId(op) == IF variant = "local" THEN op.id ELSE op.form.id

\* C24: updateStatus on an id the store holds is never refused, whatever the
\* current and the target status: it returns the record, whose status is the
\* target and whose updatedAt is the current time, every other field of it as
\* before, and the store has the same records in the same places otherwise
UpdateStatusWritesStatusOnly ==
    [][ UpdatesExistingId
        => /\ lastOp'.result.kind = "record"
           /\ Len(Store') = Len(Store)
           /\ \A i \in DOMAIN Store :
                Store'[i] = IF Store[i].id = UpdatedId(lastOp')
                            THEN StatusWritten(Store[i])
                            ELSE Store[i]
           /\ \E i \in DOMAIN Store :
                /\ Store[i].id = UpdatedId(lastOp')
                /\ lastOp'.result.record = Store'[i] ]_vars

\* C24 witness: of two stored records the older one, at the end of the local
\* list or the start of the table, was updated after time had passed, and
\* the other record still has the status it was created with
UpdateStatusWitness ==
    /\ Len(Store) = 2
    /\ lastOp.op = "updateStatus" /\ lastOp.result.kind = "record"
    /\ \E i, j \in DOMAIN Store :
        /\ i # j
        /\ Store[i] = lastOp.result.record
        /\ Store[i].updatedAt > Store[i].createdAt
        /\ Store[i].createdAt < Store[j].createdAt
        /\ Store[j].updatedAt = Store[j].createdAt
        /\ IF variant = "local"
           THEN Store[i].status = "invalid" /\ Store[j].status = "pending" /\ i = 2
           ELSE Store[i].status = INVALID /\ Store[j].status = PENDING /\ i = 1

(***************************************************************************)
(* Properties of isContextPending                                          *)
(***************************************************************************)
\* the describe call of the latest selection has not settled
LatestCallPending == \E call \in describeCalls : call.token = contextToken

\* with a draft present, isContextPending says that the call of the latest
\* selection is pending
PendingFlagTracksLatestCall ==
    draft # NoDraft => (draft.isContextPending <=> LatestCallPending)

\* C25: in every reachable state with a draft, isContextPending is true
\* exactly when the describe call of the latest selection has not settled;
\* and when every call settles in the end, then from some point on, the
\* selections having stopped, a draft that is present is not pending
ContextPendingUntilLatestSettles ==
    /\ []PendingFlagTracksLatestCall
    /\ <>[](draft # NoDraft => ~draft.isContextPending)

\* C25 witness: the call of the latest selection has settled and the draft
\* is not pending although the call of an earlier selection still is
ContextPendingWitness ==
    /\ draft # NoDraft
    /\ ~draft.isContextPending
    /\ Settled(contextToken)
    /\ describeCalls # {}

(***************************************************************************)
(* Properties of a create in flight                                        *)
(***************************************************************************)
\* the step in which a create settles with success: the promise resolves
\* with the record, or the fetcher is idle again with ok data
CreateSucceeds ==
    \/ /\ pendingCreate # NoCall /\ pendingCreate' = NoCall
       /\ pendingCreate.kind = "record"
    \/ /\ createFetcher.state = "loading" /\ createFetcher'.state = "idle"
       /\ createFetcher.data.ok

\* the draft is no longer the one that was submitted: its text was changed,
\* or it belongs to another selection
DraftChangedInFlight ==
    /\ draft # NoDraft /\ submitLog.taken # NoDraft
    /\ \/ draft.feedbackText # submitLog.taken.feedbackText
       \/ draft.selector # submitLog.taken.selector

\* C26: when a create settles with success, a text that is not the one that
\* was submitted (it was typed while the create was in flight, or it belongs
\* to a draft for another element selected meanwhile) is not erased
SubmissionClearsSubmittedTextOnly ==
    [][ (CreateSucceeds /\ DraftChangedInFlight)
        => draft'.feedbackText = draft.feedbackText ]_vars

\* C26 witness: a create that stored a record is in flight and the draft
\* holds another text than the one submitted, typed since
TypedInFlightWitness ==
    /\ submitLog.inFlight = 1
    /\ \/ pendingCreate # NoCall /\ pendingCreate.kind = "record"
       \/ createFetcher.state = "loading" /\ createFetcher.data.ok
    /\ draft # NoDraft /\ submitLog.taken # NoDraft
    /\ draft.selector = submitLog.taken.selector
    /\ submitLog.taken.feedbackText = <<" ","o","k">>
    /\ draft.feedbackText = <<"n","o">>

\* the other case of C26: the draft of another element, selected while the
\* create was in flight, holds a typed text
OtherDraftInFlightWitness ==
    /\ submitLog.inFlight = 1
    /\ \/ pendingCreate # NoCall /\ pendingCreate.kind = "record"
       \/ createFetcher.state = "loading" /\ createFetcher.data.ok
    /\ draft # NoDraft /\ submitLog.taken # NoDraft
    /\ draft.selector # submitLog.taken.selector
    /\ draft.feedbackText = <<"n","o">>

\* a record stored for a draft whose describe call was pending has the
\* htmlPreview as its context and the name the draft carried
PendingDraftStoredAsIs ==
    \A e \in submitLog.stored :
        e.draft.isContextPending
        => /\ e.draft.context = e.draft.htmlPreview
           /\ RecordOf(e.id).context = e.draft.htmlPreview
           /\ RecordOf(e.id).componentName = e.draft.componentName

\* C27: a draft can be submitted while its describe call is pending; the
\* record stored for it has the htmlPreview placeholder as context and the
\* componentName carried over from the previous draft, and the settling of
\* the describe call afterwards changes neither the store nor the list shown
PendingSubmissionStoresPlaceholder ==
    /\ []PendingDraftStoredAsIs
    /\ [][ JustSettled # {} => Store' = Store /\ records' = records ]_vars

\* C27 witness: the second selection was submitted while its call was
\* pending; the record has the placeholder and the name read from the text
\* of the first call; the second call has resolved since with a text that
\* names nothing, so the draft has another context and no name
PendingSubmissionWitness ==
    /\ contextToken = 2 /\ draft # NoDraft
    /\ ResolvedOk(2) /\ Entry(2).applied
    /\ draft.componentName = NULL
    /\ \E e \in submitLog.stored :
          /\ e.draft.isContextPending
          /\ e.draft.selector = draft.selector
          /\ RecordOf(e.id).context = draft.htmlPreview
          /\ RecordOf(e.id).context # draft.context
          /\ RecordOf(e.id).componentName = extractComponentName(Entry(1).text)
          /\ RecordOf(e.id).componentName # NULL

(***************************************************************************)
(* Properties of overlapping calls of the local service                    *)
(***************************************************************************)
\* the store after one call applied to `stored` with nothing in between
AppliedAlone(stored, call) ==
    IF call.op = "create"
    THEN <<NewRecord(call.arguments.input, call.result.record.id, call.at)>> \o stored
    ELSE LET index == FindIndex(stored, call.arguments.id)
         IN  IF index = 0 THEN stored
             ELSE [stored EXCEPT ![index] =
                        UpdatedRecord(stored[index], call.arguments.status, call.at)]

\* the store after the calls applied one after another, in the order made
RECURSIVE AppliedInOrder(_)
AppliedInOrder(calls) ==
    IF calls = <<>> THEN <<>>
    ELSE AppliedAlone(AppliedInOrder(SubSeq(calls, 1, Len(calls) - 1)),
                      calls[Len(calls)])

\* the store is what the calls made so far give one after another, and the
\* record of every create is in it
NoWriteLost ==
    /\ storage = AppliedInOrder(serviceCalls)
    /\ \A i \in DOMAIN serviceCalls :
            serviceCalls[i].op = "create"
            => serviceCalls[i].result.record.id \in Ids(storage)

\* C28: create and updateStatus of the local service read and write storage
\* in the step of the call, before the latency: whatever calls overlap and
\* in whatever order their promises resolve, the store is the result of the
\* calls applied one after another in the order made, and the step in which
\* a promise resolves writes nothing
OverlappingCallsApplyInCallOrder ==
    /\ []NoWriteLost
    /\ [][ /\ PendingCalls' # PendingCalls /\ Len(serviceCalls') = Len(serviceCalls)
              => storage' = storage
           /\ Len(serviceCalls') > Len(serviceCalls)
              => storage' = AppliedAlone(storage, serviceCalls'[Len(serviceCalls')])
         ]_vars

\* C28 witness: a status update was called while a create was pending and
\* another create while both were; the promise of the last call resolved
\* first; the store has both records and the status written by the update
OverlappingCallsWitness ==
    /\ Len(serviceCalls) = 3
    /\ serviceCalls[1].op = "create" /\ ~serviceCalls[1].settled
    /\ serviceCalls[2].op = "updateStatus" /\ ~serviceCalls[2].settled
    /\ serviceCalls[2].result.kind = "record"
    /\ serviceCalls[2].arguments.status = "resolved"
    /\ serviceCalls[3].op = "create" /\ serviceCalls[3].settled
    /\ Len(storage) = 2
    /\ storage[2].status = "resolved"
    /\ storage[1] = serviceCalls[3].result.record

(***************************************************************************)
(* Properties of the list of the local page                                *)
(***************************************************************************)
\* no call of the service is in flight
NoCallInFlight ==
    /\ PendingCalls = {}
    /\ pendingCreate = NoCall
    /\ pendingUpdates = {}

\* the records of a list, as a set
RecordSet(list) == {list[i] : i \in DOMAIN list}

\* C29: in the local variant, whenever no call of the service is in flight,
\* the list of the page holds exactly the records of storage, each once and
\* as it is stored, its status included
ListShowsStorageWhenIdle ==
    (variant = "local" /\ NoCallInFlight)
    => /\ RecordSet(records) = RecordSet(storage)
       /\ Len(records) = Len(storage)

\* C29 witness: the page was opened on two stored records; a submission and
\* a status change were made and everything has settled: the list shows
\* three records, the new one first, and the status written
ListShowsStorageWitness ==
    /\ NoCallInFlight
    /\ Len(serviceCalls) >= 3
    /\ serviceCalls[2].op = "create"
    /\ \E i \in DOMAIN serviceCalls :
            serviceCalls[i].op = "updateStatus" /\ serviceCalls[i].result.kind = "record"
    /\ Len(records) = 3
    /\ records[1].id = "id3"
    /\ \E i \in DOMAIN records : records[i].status = "resolved"

(***************************************************************************)
(* Properties of the requests the action refuses                           *)
(***************************************************************************)
\* the last operation was a request to the action of the route
ActionAnswered(op) == variant = "remix" /\ "form" \in DOMAIN op

\* the request has an unknown intent, or is a create with a required field
\* missing or blank once trimmed, or is an update-status without an id or
\* with a status that is none of the four whatever its case
RefusedRequest(form) ==
    \/ form.intent \notin {"create", "update-status"}
    \/ form.intent = "create" /\ HasBlankRequired(form)
    \/ /\ form.intent = "update-status"
       /\ \/ form.id = NoId \/ form.id = ""
          \/ form.status = Absent
          \/ \A valid \in VALID_STATUS :
                toUpperCase(form.status) # toUpperCase(valid)

\* a refused request is answered ok:false with status 400 and writes nothing
RefusedRequestWritesNothing ==
    [][ (ActionAnswered(lastOp') /\ RefusedRequest(lastOp'.form))
        => /\ db' = db
           /\ lastOp'.result.kind = "badRequest"
           /\ lastOp'.result.ok = FALSE
           /\ lastOp'.result.httpStatus = 400 ]_vars

\* any other create adds one row, with status PENDING, and leaves the rows
\* there were as they are
AcceptedCreateStoresPending ==
    [][ ( /\ ActionAnswered(lastOp') /\ lastOp' # lastOp
          /\ lastOp'.form.intent = "create"
          /\ ~RefusedRequest(lastOp'.form) )
        => /\ lastOp'.result.kind = "record"
           /\ lastOp'.result.record.status = PENDING
           /\ lastOp'.result.record.id \notin Ids(db)
           /\ Len(db') = Len(db) + 1
           /\ \E i \in DOMAIN db' : db'[i] = lastOp'.result.record
           /\ \A i \in DOMAIN db : \E j \in DOMAIN db' : db'[j] = db[i] ]_vars

\* C30: the action of the Remix route writes nothing and answers ok:false
\* with HTTP status 400 to every request with an unknown intent, to every
\* create with one of the six required fields missing or blank after
\* trimming, and to every update-status with a missing id or a status that
\* is none of the four statuses compared without regard to case; every
\* other create stores a record with status PENDING
ActionRefusesBadRequests ==
    RefusedRequestWritesNothing /\ AcceptedCreateStoresPending

\* C30 witness: with a row stored, a create whose feedbackText is a blank
\* that is not empty has just been refused with status 400
RefusedBlankCreateWitness ==
    /\ ActionAnswered(lastOp)
    /\ lastOp.form.intent = "create"
    /\ lastOp.form.feedbackText = <<" ">>
    /\ lastOp.result.kind = "badRequest"
    /\ lastOp.result.httpStatus = 400
    /\ Len(db) = 1
    /\ db[1].status = PENDING

\* C30 witness: an update-status for a stored row with the status "done"
\* has been refused, and one with a missing id as well
RefusedStatusWitness ==
    /\ ActionAnswered(lastOp)
    /\ lastOp.form.intent = "update-status"
    /\ lastOp.form.id \in Ids(db)
    /\ lastOp.form.status = <<"d","o","n","e">>
    /\ lastOp.result.kind = "badRequest"

============================================================================
